---- MODULE Spec2Model ----
(***************************************************************************)
(* WebScreen: the object handle registry and the connectivity maintenance *)
(* loop of webscreen/lvgl_elk.h, and the application supervisor of        *)
(* webscreen/webscreen_main.cpp (the Arduino sketch build) and of         *)
(* webscreen_firmware/src/core/webscreen_main.cpp (the firmware build).   *)
(***************************************************************************)
EXTENDS Integers, Sequences, FiniteSets, TLC

VARIABLES
  \* ---- object handle registry (webscreen/lvgl_elk.h:797-816)
  g_objects,   \* std::vector<lv_obj_t*>: a sequence of pointers, NULL = 0
  live,        \* history: handles returned by a store and not released since
  liveObj,     \* history: the same, for stores of a non-null object only
  issued,      \* history: every handle a store has ever returned
  regOp,       \* history: the last registry call, its argument and result
  \* ---- connectivity maintenance (webscreen/lvgl_elk.h:42-43, 3045-3120)
  now,                        \* millis()
  wifiUp,                     \* WiFi.status() == WL_CONNECTED
  mqttUp,                     \* g_mqttClient.connected()
  lastWiFiReconnectAttempt,
  lastMqttReconnectAttempt,
  wifiTry,     \* history: the last doWiFiReconnect: when it started (-1:
               \* never) and the time since the one before (-1: none)
  mqttTry,     \* history: the last doMqttConnect: when it started, whether it
               \* succeeded, the time since the one before and whether that
               \* one had succeeded
  poll,        \* history: what the last wifiMqttMaintainLoop call did
  \* ---- application supervisor (webscreen/webscreen_main.cpp, the sketch;
  \*      webscreen_firmware/src/core/webscreen_main.cpp, the firmware)
  build,                \* which of the two supervisors runs: "none" at reset
  pc,                   \* "boot", "running" (setup returned), "halted"
                        \* (emergency_shutdown's endless loop)
  g_app_state,
  g_use_fallback,
  wifi_enabled,         \* g_webscreen_config.wifi.enabled (sketch)
  g_javascript_active,  \* the script runtime is started
  g_fallback_active,    \* the fallback application is started
  g_system_healthy,
  g_last_health_check,
  upMs,                 \* millis() as the supervisor reads it
  reports,     \* the Fault Handler's log: <<code, severity>> per report
  world,       \* history: what the environment answered during setup
  starts,      \* history: script-engine and fallback startups attempted
  setupOk,     \* history: what webscreen_setup returned (sketch)
  iter,        \* history: what the last main-loop iteration did
  shutdownAsked,  \* history: webscreen_shutdown() has been called
  \* ---- the configuration file (webscreen/serial_commands.cpp:195-239)
  cfgCard,     \* /webscreen.json on the card: how many edits it holds
  cfgEdits,    \* history: how many edits "/config set" has acknowledged
  \* ---- resource manager (webscreen_firmware/src/utils/memory/
  \*      memory_manager.cpp)
  g_memory_manager_initialized,
  g_psram_available,
  g_memory_stats,   \* total_allocated, peak_allocated, allocation_count,
                    \* failed_allocations
  g_alloc_list,     \* the allocation records, newest first: [ptr, size]
  heap,             \* the two heaps behind heap_caps_*: per address, the
                    \* tier and size of the block there ("none": no block)
  memOp,       \* history: the last manager call, its arguments, its result
               \* and the tiers it asked
  \* ---- object table of the websocket build ----
  g_lv_obj_map, \* the fixed array of MAX_OBJECTS slots
  mapOp,        \* history: the last table call, its argument and its result
  \* ---- script bridge of the webscreen build ----
  g_style_map,  \* the fixed array of MAX_STYLES style pointers
  scales,       \* the scales lv_meter_add_scale made: <<meter, scale>>
  jsCall,       \* history: the last bridge call, its handle arguments, what
                \* it returned to the script and whether it called LVGL
  \* ---- two tasks calling one object table ----
  tb,           \* the build whose table the tasks call ("none" at first)
  tpc,          \* each task's position in its call
  tcall,        \* each task's call: operation, argument, scanned index
  g_obj_mtx,    \* the holder of the table mutex (0: free)
  held,         \* history: <<handle, object>> of the stores that returned
                \* and whose handle was not released since
  \* ---- fault handler (error_handler.h) ----
  errNow,       \* the handler's clock, in units of half an escalation window
  errOcc,       \* per code: occurrences in the current window, window start
  errTotal,     \* webscreen_error_get_count()
  errFatal,     \* webscreen_error_get_fatal_count()
  errCheckOk,   \* the outcome of the configurable memory/CPU health check
  errLast,      \* history: the last report and the strategy it returned
  fatalSeen     \* history: a Fatal report was made since the last reset

regVars  == <<g_objects, live, liveObj, issued, regOp>>
connVars == <<now, wifiUp, mqttUp, lastWiFiReconnectAttempt,
              lastMqttReconnectAttempt, wifiTry, mqttTry, poll>>
supVars  == <<build, pc, g_app_state, g_use_fallback, wifi_enabled,
              g_javascript_active, g_fallback_active, g_system_healthy,
              g_last_health_check, upMs, reports, world, starts, setupOk,
              iter, shutdownAsked>>
cfgVars  == <<cfgCard, cfgEdits>>
memVars  == <<g_memory_manager_initialized, g_psram_available,
              g_memory_stats, g_alloc_list, heap, memOp>>
mapVars  == <<g_lv_obj_map, mapOp>>
brVars   == <<g_style_map, scales, jsCall>>
taskVars == <<tb, tpc, tcall, g_obj_mtx, held>>
errVars  == <<errNow, errOcc, errTotal, errFatal, errCheckOk, errLast,
              fatalSeen>>
vars     == <<regVars, connVars, supVars, cfgVars, memVars, mapVars, brVars,
              taskVars, errVars>>

\* what the actions of one component leave alone
restOfReg  == <<connVars, supVars, cfgVars, memVars, mapVars, brVars,
               taskVars, errVars>>
restOfConn == <<regVars, supVars, cfgVars, memVars, mapVars, brVars,
               taskVars, errVars>>
restOfSup  == <<regVars, connVars, cfgVars, memVars, mapVars, brVars,
               taskVars, errVars>>
restOfCfg  == <<regVars, connVars, supVars, memVars, mapVars, brVars,
               taskVars, errVars>>
restOfMem  == <<regVars, connVars, supVars, cfgVars, mapVars, brVars,
               taskVars, errVars>>
restOfMap  == <<regVars, connVars, supVars, cfgVars, memVars, brVars,
               taskVars, errVars>>
restOfBr   == <<connVars, supVars, cfgVars, memVars, mapVars, taskVars,
               errVars>>
restOfTask == <<connVars, supVars, cfgVars, memVars, brVars, errVars>>
restOfErr  == <<regVars, connVars, supVars, cfgVars, memVars, mapVars, brVars,
               taskVars>>

(***************************************************************************)
(* Object handle registry                                                  *)
(***************************************************************************)
NULL == 0

\* Bounds of the registry model: distinct native objects, and slots the
\* vector may grow to.
NumObjs  == 2
MaxSlots == 3

Ptrs      == 1 .. NumObjs
\* store_lv_obj takes any lv_obj_t*: the creators pass on what lv_*_create
\* returned without a null check (js_lv_meter_create, js_lv_spangroup_create).
StoreArgs == Ptrs \cup {NULL}
Handles   == -1 .. (MaxSlots + 1)

RECURSIVE FirstFreeFrom(_, _)
\* the scan of store_lv_obj: the first index i >= k (0-based) with
\* !g_objects[i], or size() when there is none
FirstFreeFrom(v, k) ==
  IF k >= Len(v) THEN Len(v)
  ELSE IF v[k + 1] = NULL THEN k
  ELSE FirstFreeFrom(v, k + 1)

\* the handle store_lv_obj(obj) returns on vector v
StoreHandle(v) == FirstFreeFrom(v, 0)

StoreVecAppend(v, obj) == Append(v, obj)

\* the vector after store_lv_obj(obj)
StoreVec(v, obj) ==
  LET i == FirstFreeFrom(v, 0) IN
  IF i < Len(v) THEN [v EXCEPT ![i + 1] = obj] ELSE Append(v, obj)

\* get_lv_obj(h) on vector v
GetIn(v, h) == IF h >= 0 /\ h < Len(v) THEN v[h + 1] ELSE NULL

get_lv_obj(h) == GetIn(g_objects, h)

ReleaseVecNoop(v, h) == v

\* a release that clears every slot of the table
ReleaseVecClearsAll(v, h) ==
  IF h >= 0 /\ h < Len(v) THEN [i \in 1 .. Len(v) |-> NULL] ELSE v

\* the vector after release_lv_obj(h)
ReleaseVec(v, h) ==
  IF h >= 0 /\ h < Len(v) THEN [v EXCEPT ![h + 1] = NULL] ELSE v

store_lv_obj(obj) ==
  LET h == StoreHandle(g_objects) IN
  /\ h < MaxSlots
  /\ g_objects' = StoreVec(g_objects, obj)
  /\ live' = live \cup {h}
  /\ liveObj' = IF obj # NULL THEN liveObj \cup {h} ELSE liveObj
  /\ issued' = issued \cup {h}
  /\ regOp' = [op |-> "store", arg |-> obj, res |-> h, was |-> NULL]

release_lv_obj(h) ==
  /\ g_objects' = ReleaseVec(g_objects, h)
  /\ live' = live \ {h}
  /\ liveObj' = liveObj \ {h}
  /\ issued' = issued
  /\ regOp' = [op |-> "release", arg |-> h, res |-> NULL,
               was |-> get_lv_obj(h)]

\* a lookup: the state is not changed, the call and its result are recorded
LookupObj(h) ==
  /\ regOp' = [op |-> "get", arg |-> h, res |-> get_lv_obj(h),
               was |-> get_lv_obj(h)]
  /\ UNCHANGED <<g_objects, live, liveObj, issued>>

InitRegistry ==
  /\ g_objects = <<>>
  /\ live = {}
  /\ liveObj = {}
  /\ issued = {}
  /\ regOp = [op |-> "none", arg |-> NULL, res |-> NULL, was |-> NULL]

StoreStep   == \E obj \in StoreArgs : store_lv_obj(obj) /\ UNCHANGED restOfReg
ReleaseStep == \E h \in Handles : release_lv_obj(h) /\ UNCHANGED restOfReg
LookupStep  == \E h \in Handles : LookupObj(h) /\ UNCHANGED restOfReg

NextRegistry == StoreStep \/ ReleaseStep \/ LookupStep

(***************************************************************************)
(* Object table of the websocket build: a fixed array, no release          *)
(***************************************************************************)
\* static const int MAX_OBJECTS = 16;
MAX_OBJECTS == 16

MapHandles == -1 .. MAX_OBJECTS

RECURSIVE MapFirstFree(_, _)
\* the scan "for (i = 0; i < MAX_OBJECTS; i++) if (!g_lv_obj_map[i])":
\* the first such i >= k, or -1 ("No free slot")
MapFirstFree(map, k) ==
  IF k >= MAX_OBJECTS THEN -1
  ELSE IF map[k] = NULL THEN k
  ELSE MapFirstFree(map, k + 1)

\* a scan that answers slot 0 when no slot is free
MapStoreHandleNeverFull(map) ==
  IF MapFirstFree(map, 0) = -1 THEN 0 ELSE MapFirstFree(map, 0)

\* the handle store_lv_obj(obj) returns on the array
MapStoreHandle(map) == MapFirstFree(map, 0)

\* get_lv_obj(handle) on the array
MapGet(map, h) == IF h < 0 \/ h >= MAX_OBJECTS THEN NULL ELSE map[h]

\* the objects the creators hand to store_lv_obj: what lv_*_create returned,
\* an object not yet in the table, or null
FreshObj(map) == 1 + Cardinality({i \in DOMAIN map : map[i] # NULL})

\* store_lv_obj(obj) of the websocket build
ws_store_lv_obj(obj) ==
  LET h == MapStoreHandle(g_lv_obj_map) IN
  /\ g_lv_obj_map' = IF h = -1 THEN g_lv_obj_map
                     ELSE [g_lv_obj_map EXCEPT ![h] = obj]
  /\ mapOp' = [op |-> "store", arg |-> obj, res |-> h]

\* a lookup: get_lv_obj(handle) of the websocket build, recorded
ws_get_lv_obj(h) ==
  /\ mapOp' = [op |-> "get", arg |-> h, res |-> MapGet(g_lv_obj_map, h)]
  /\ UNCHANGED g_lv_obj_map

InitMap ==
  /\ g_lv_obj_map = [i \in 0 .. (MAX_OBJECTS - 1) |-> NULL]
  /\ mapOp = [op |-> "none", arg |-> NULL, res |-> NULL]

MapStoreStep  == \E obj \in {NULL, FreshObj(g_lv_obj_map)} :
                   ws_store_lv_obj(obj) /\ UNCHANGED restOfMap
MapLookupStep == \E h \in MapHandles :
                   ws_get_lv_obj(h) /\ UNCHANGED restOfMap

NextMap == MapStoreStep \/ MapLookupStep

\* a build has one of the two tables: the vector (webscreen) or the fixed
\* array (websocket)
VectorBuild == mapOp.op = "none"
ArrayBuild  == regOp.op = "none"

NextTables == (VectorBuild /\ NextRegistry) \/ (ArrayBuild /\ NextMap)

(***************************************************************************)
(* Connectivity maintenance: wifiMqttMaintainLoop                          *)
(***************************************************************************)
\* "Try reconnect every 10 seconds"
RETRY_INTERVAL_MS  == 10000
\* doWiFiReconnect: for (i = 0; i < 15; i++) ... vTaskDelay(200 ms)
WIFI_POLLS         == 15
WIFI_POLL_DELAY_MS == 200

\* Bound of the connectivity model: the clock stops after MaxTicks units.
MaxTicks == 24

\* The model's clock runs in units of a tenth of the retry interval; time
\* passes between polls by one of TickSteps; a successful doWiFiReconnect sees
\* the link at one of the checks WifiSeenAt; a doMqttConnect takes one of
\* MqttConnectMs.
TimeUnitMs    == RETRY_INTERVAL_MS \div 10
MaxTime       == MaxTicks * TimeUnitMs
TickSteps     == {TimeUnitMs, 5 * TimeUnitMs}
WifiSeenAt    == {0, TimeUnitMs \div WIFI_POLL_DELAY_MS}
MqttConnectMs == {0, TimeUnitMs}

RetryDueAlways(n, last) == TRUE

\* if (now - last...ReconnectAttempt > 10000)
RetryDue(n, last) == n - last > RETRY_INTERVAL_MS

RunsMqttPartAlways(wifiSeen) == TRUE

\* the MQTT part of the poll is reached only when the poll found Wi-Fi
\* connected: the Wi-Fi branch ends in "return"
RunsMqttPart(wifiSeen) == wifiSeen

\* doWiFiReconnect(): waits for WiFi.status() == WL_CONNECTED, checking
\* WIFI_POLLS times WIFI_POLL_DELAY_MS apart. ok: the link came up at check
\* number at; otherwise every check failed.
WiFiReconnectMs(ok, at) ==
  IF ok THEN at * WIFI_POLL_DELAY_MS ELSE WIFI_POLLS * WIFI_POLL_DELAY_MS


\* lastMqttReconnectAttempt after "lastMqttReconnectAttempt = now;
\* if (doMqttConnect()) lastMqttReconnectAttempt = 0;"
MqttTimerAfter(ok, n) == IF ok THEN 0 ELSE n

NoPoll == [ran |-> FALSE, wifiSeen |-> FALSE, wifiTry |-> FALSE,
           mqttTry |-> FALSE]

\* wifiMqttMaintainLoop(): one poll. wOk, wAt: the outcome of doWiFiReconnect
\* and the check at which it saw the link; mOk, mMs: the outcome of
\* doMqttConnect and the time it took (each fixed when the call is not made).
wifiMqttMaintainLoop ==
  \E wOk, mOk \in BOOLEAN, wAt \in WifiSeenAt, mMs \in MqttConnectMs :
    LET seen  == wifiUp
        wTry  == ~seen /\ RetryDue(now, lastWiFiReconnectAttempt)
        t1    == IF wTry THEN now + WiFiReconnectMs(wOk, wAt) ELSE now
        mPart == RunsMqttPart(seen)
        mTry  == mPart /\ ~mqttUp /\ RetryDue(t1, lastMqttReconnectAttempt)
        t2    == IF mTry THEN t1 + mMs ELSE t1
    IN
    /\ t2 <= MaxTime
    /\ (~wTry \/ ~wOk) => wAt = 0
    /\ ~wTry => ~wOk
    /\ ~mTry => (~mOk /\ mMs = 0)
    /\ now' = t2
    /\ wifiUp' = IF wTry THEN wOk ELSE wifiUp
    /\ lastWiFiReconnectAttempt' = IF wTry THEN now
                                   ELSE lastWiFiReconnectAttempt
    /\ wifiTry' = IF wTry
                  THEN [at |-> now,
                        gap |-> IF wifiTry.at = -1 THEN -1
                                ELSE now - wifiTry.at]
                  ELSE wifiTry
    /\ mqttUp' = IF mTry THEN mOk ELSE mqttUp
    /\ lastMqttReconnectAttempt' = IF mTry THEN MqttTimerAfter(mOk, t1)
                                   ELSE lastMqttReconnectAttempt
    /\ mqttTry' = IF mTry
                  THEN [at |-> t1, ok |-> mOk,
                        gap |-> IF mqttTry.at = -1 THEN -1
                                ELSE t1 - mqttTry.at,
                        prevOk |-> mqttTry.ok]
                  ELSE mqttTry
    /\ poll' = [ran |-> TRUE, wifiSeen |-> seen, wifiTry |-> wTry,
                mqttTry |-> mTry]
    /\ UNCHANGED restOfConn

\* time passes between two polls
Tick ==
  /\ \E d \in TickSteps : now + d <= MaxTime /\ now' = now + d
  /\ UNCHANGED <<wifiUp, mqttUp, lastWiFiReconnectAttempt,
                 lastMqttReconnectAttempt, wifiTry, mqttTry, poll>>
  /\ UNCHANGED restOfConn

\* the radio loses or regains the access point (WiFi.status() changes)
WifiChange ==
  /\ wifiUp' = ~wifiUp
  /\ UNCHANGED <<now, mqttUp, lastWiFiReconnectAttempt,
                 lastMqttReconnectAttempt, wifiTry, mqttTry, poll>>
  /\ UNCHANGED restOfConn

\* the broker connection is lost (g_mqttClient.connected() turns false)
MqttDrop ==
  /\ mqttUp
  /\ mqttUp' = FALSE
  /\ UNCHANGED <<now, wifiUp, lastWiFiReconnectAttempt,
                 lastMqttReconnectAttempt, wifiTry, mqttTry, poll>>
  /\ UNCHANGED restOfConn

\* the script's own mqtt_connect(): connects without the retry timer
js_mqtt_connect ==
  /\ ~mqttUp
  /\ \E ok \in BOOLEAN : mqttUp' = ok
  /\ UNCHANGED <<now, wifiUp, lastWiFiReconnectAttempt,
                 lastMqttReconnectAttempt, wifiTry, mqttTry, poll>>
  /\ UNCHANGED restOfConn

NextConn == wifiMqttMaintainLoop \/ Tick \/ WifiChange \/ MqttDrop
            \/ js_mqtt_connect

(***************************************************************************)
(* Application supervisor: shared data                                     *)
(***************************************************************************)
AppStates == {"Initializing", "RunningScript", "RunningFallback", "Error",
              "Shutdown"}

\* a supervisor's working state while a handler runs
Ctx0 == [state |-> "Initializing", fallback |-> FALSE, js |-> FALSE,
         fb |-> FALSE, wifi |-> TRUE, ssid |-> FALSE, reports |-> <<>>,
         jsStarts |-> 0, fbStarts |-> 0, depth |-> 0]

\* WEBSCREEN_ERROR_REPORT_<severity>(code, ...)
Report(c, code, severity) ==
  [c EXCEPT !.reports = Append(@, <<code, severity>>)]

SetFallback(c) == [c EXCEPT !.fallback = TRUE]

Ret(ok, c) == [ok |-> ok, c |-> c]

\* how many reports of this code and severity the log holds
CountReports(log, code, severity) ==
  Cardinality({i \in 1 .. Len(log) : log[i] = <<code, severity>>})

CountSeverity(log, severity) ==
  Cardinality({i \in 1 .. Len(log) : log[i][2] = severity})

(***************************************************************************)
(* Firmware supervisor: webscreen_firmware/src/core/webscreen_main.cpp     *)
(***************************************************************************)
\* What the collaborators answer during webscreen_setup. core: which of the
\* core systems fails to initialise, if any; cfg: the state of
\* /webscreen.json ("noinit": config_manager_init itself fails); cfgPtr:
\* config_manager_get_config() is non-null.
FwInputs ==
  [core : {"ok", "handler", "logger", "memory"},
   power : BOOLEAN, sd : BOOLEAN, display : BOOLEAN,
   cfg : {"noinit", "absent", "badjson", "ok"}, cfgPtr : BOOLEAN,
   wifiEnabled : BOOLEAN, wifiInit : BOOLEAN, wifiConnect : BOOLEAN,
   scriptExists : BOOLEAN, jsInit : BOOLEAN, fbInit : BOOLEAN]

\* answers that are never asked for are fixed (to the successful answer), so
\* that one run of setup is one input; a configuration that loaded is there
\* to be fetched
FwAsked(in) ==
  LET hwUp     == in.core = "ok" /\ in.power /\ in.display
      netAsked == hwUp /\ in.cfgPtr
      netOk    == netAsked /\ in.wifiEnabled /\ in.wifiInit /\ in.wifiConnect
      jsPath   == hwUp /\ in.sd /\ in.cfg = "ok" /\ netOk
  IN
  /\ in.core # "ok" => in.power
  /\ (in.core # "ok" \/ ~in.power) => (in.sd /\ in.display)
  /\ ~hwUp => in.cfg = "ok"
  /\ in.cfg = "ok" => in.cfgPtr
  /\ ~netAsked => in.wifiEnabled
  /\ ~(netAsked /\ in.wifiEnabled) => in.wifiInit
  /\ ~(netAsked /\ in.wifiEnabled /\ in.wifiInit) => in.wifiConnect
  /\ ~jsPath => in.scriptExists
  /\ ~(jsPath /\ in.scriptExists) => in.jsInit
  /\ (~hwUp \/ (jsPath /\ in.scriptExists /\ in.jsInit)) => in.fbInit

fw_initialize_core_systems(in, c) ==
  IF in.core = "handler" THEN Ret(FALSE, c)
  ELSE IF in.core = "logger" THEN Ret(FALSE, Report(c, "UNKNOWN", "FATAL"))
  ELSE IF in.core = "memory"
  THEN Ret(FALSE, Report(c, "MEMORY_ALLOCATION_FAILED", "FATAL"))
  ELSE Ret(TRUE, c)

fw_initialize_hardware(in, c) ==
  IF ~in.power THEN Ret(FALSE, Report(c, "UNKNOWN", "ERROR"))
  ELSE
    LET c1 == IF ~in.sd
              THEN SetFallback(Report(c, "SD_INIT_FAILED", "WARNING"))
              ELSE c
    IN IF ~in.display
       THEN Ret(FALSE, Report(c1, "DISPLAY_INIT_FAILED", "FATAL"))
       ELSE Ret(TRUE, c1)

fw_load_configuration(in, c) ==
  IF in.cfg = "noinit"
  THEN Ret(FALSE, SetFallback(Report(c, "CONFIG_FILE_NOT_FOUND", "ERROR")))
  ELSE IF in.cfg # "ok"
  THEN Ret(FALSE, SetFallback(Report(c, "CONFIG_PARSE_FAILED", "WARNING")))
  ELSE Ret(TRUE, c)

fw_initialize_network(in, c) ==
  IF ~in.cfgPtr \/ ~in.wifiEnabled THEN Ret(FALSE, SetFallback(c))
  ELSE IF ~in.wifiInit
  THEN Ret(FALSE, SetFallback(Report(c, "WIFI_CONNECT_FAILED", "WARNING")))
  ELSE IF ~in.wifiConnect
  THEN Ret(FALSE, SetFallback(Report(c, "WIFI_TIMEOUT", "WARNING")))
  ELSE Ret(TRUE, c)

\* a start_runtime that looks at g_use_fallback only when the script cannot
\* be started
RECURSIVE fw_start_runtime_script_first(_, _)
fw_start_runtime_script_first(in, c0) ==
  LET c == [c0 EXCEPT !.depth = @ + 1]
      scriptOk == in.cfgPtr /\ in.scriptExists /\ in.jsInit
  IN
  IF c.fallback /\ ~scriptOk
  THEN LET c1 == [c EXCEPT !.fbStarts = @ + 1] IN
       IF ~in.fbInit
       THEN Ret(FALSE, Report(c1, "UNKNOWN", "FATAL"))
       ELSE Ret(TRUE, [c1 EXCEPT !.fb = TRUE, !.state = "RunningFallback"])
  ELSE IF ~in.cfgPtr \/ ~in.scriptExists
  THEN fw_start_runtime_script_first(in,
         SetFallback(Report(c, "SCRIPT_FILE_NOT_FOUND", "WARNING")))
  ELSE LET c1 == [c EXCEPT !.jsStarts = @ + 1] IN
       IF ~in.jsInit
       THEN fw_start_runtime_script_first(in,
              SetFallback(Report(c1, "JS_RUNTIME_FAILED", "ERROR")))
       ELSE Ret(TRUE, [c1 EXCEPT !.js = TRUE, !.state = "RunningScript"])

\* a start_runtime that tries the script engine a second time before it
\* gives up on it
RECURSIVE fw_start_runtime_retries_script(_, _)
fw_start_runtime_retries_script(in, c0) ==
  LET c == [c0 EXCEPT !.depth = @ + 1] IN
  IF c.fallback
  THEN LET c1 == [c EXCEPT !.fbStarts = @ + 1] IN
       IF ~in.fbInit
       THEN Ret(FALSE, Report(c1, "UNKNOWN", "FATAL"))
       ELSE Ret(TRUE, [c1 EXCEPT !.fb = TRUE, !.state = "RunningFallback"])
  ELSE IF ~in.cfgPtr \/ ~in.scriptExists
  THEN fw_start_runtime_retries_script(in,
         SetFallback(Report(c, "SCRIPT_FILE_NOT_FOUND", "WARNING")))
  ELSE LET c1 == [c EXCEPT !.jsStarts = @ + 1] IN
       IF ~in.jsInit
       THEN fw_start_runtime_retries_script(in,
              IF c1.jsStarts < 2
              THEN Report(c1, "JS_RUNTIME_FAILED", "ERROR")
              ELSE SetFallback(Report(c1, "JS_RUNTIME_FAILED", "ERROR")))
       ELSE Ret(TRUE, [c1 EXCEPT !.js = TRUE, !.state = "RunningScript"])

\* firmware: start_runtime(), which calls itself after setting g_use_fallback
RECURSIVE fw_start_runtime(_, _)
fw_start_runtime(in, c0) ==
  LET c == [c0 EXCEPT !.depth = @ + 1] IN
  IF c.fallback
  THEN LET c1 == [c EXCEPT !.fbStarts = @ + 1] IN
       IF ~in.fbInit
       THEN Ret(FALSE, Report(c1, "UNKNOWN", "FATAL"))
       ELSE Ret(TRUE, [c1 EXCEPT !.fb = TRUE, !.state = "RunningFallback"])
  ELSE IF ~in.cfgPtr \/ ~in.scriptExists
  THEN fw_start_runtime(in,
         SetFallback(Report(c, "SCRIPT_FILE_NOT_FOUND", "WARNING")))
  ELSE LET c1 == [c EXCEPT !.jsStarts = @ + 1] IN
       IF ~in.jsInit
       THEN fw_start_runtime(in,
              SetFallback(Report(c1, "JS_RUNTIME_FAILED", "ERROR")))
       ELSE Ret(TRUE, [c1 EXCEPT !.js = TRUE, !.state = "RunningScript"])

\* emergency_shutdown(): saves, shuts every subsystem down and never returns;
\* g_app_state is not written
fw_emergency_shutdown(c) ==
  [pc |-> "halted", c |-> [c EXCEPT !.js = FALSE, !.fb = FALSE]]

fw_webscreen_setup(in) ==
  LET r1 == fw_initialize_core_systems(in, Ctx0) IN
  IF ~r1.ok THEN fw_emergency_shutdown(r1.c)
  ELSE
    LET r2 == fw_initialize_hardware(in, r1.c) IN
    IF ~r2.ok THEN fw_emergency_shutdown(r2.c)
    ELSE
      LET r3 == fw_load_configuration(in, r2.c)
          r4 == fw_initialize_network(in, r3.c)
          r5 == fw_start_runtime(in, r4.c)
      IN IF ~r5.ok THEN fw_emergency_shutdown(r5.c)
         ELSE [pc |-> "running", c |-> r5.c]

(***************************************************************************)
(* Sketch supervisor: webscreen/webscreen_main.cpp, webscreen_runtime.cpp  *)
(***************************************************************************)
\* for (int i = 0; i < 3; i++) in initialize_storage
SD_MOUNT_ATTEMPTS == 3

\* What the environment answers during webscreen_setup. sd: each mount
\* attempt fails, or ends mounted at high or at low frequency; cfg: the state
\* of the configuration file; cfgWifi, ssid: wifi.enabled and a non-empty
\* wifi.ssid as the loaded file gives them; scriptExists, scriptExists2: the
\* two SD_MMC.exists(script_file) calls (start_runtime, then
\* webscreen_runtime_start_javascript).
SkInputs ==
  [hw : BOOLEAN, sd : [1 .. SD_MOUNT_ATTEMPTS -> {"fail", "high", "low"}],
   cfg : {"absent", "unreadable", "badjson", "ok"},
   cfgWifi : BOOLEAN, ssid : BOOLEAN, netInit : BOOLEAN,
   scriptExists : BOOLEAN, scriptExists2 : BOOLEAN]

sk_initialize_storage(in) ==
  \E i \in 1 .. SD_MOUNT_ATTEMPTS : in.sd[i] # "fail"

\* answers that are never asked for are fixed
SkAsked(in) ==
  /\ \A i, j \in 1 .. SD_MOUNT_ATTEMPTS :
       (i < j /\ in.sd[i] # "fail") => in.sd[j] = "fail"
  /\ ~in.hw => in.sd[1] = "high"
  /\ (~in.hw \/ ~sk_initialize_storage(in)) =>
       (in.cfg = "ok" /\ in.scriptExists)
  /\ in.cfg # "ok" => (in.cfgWifi /\ ~in.ssid)
  /\ (~in.hw \/ ~sk_initialize_storage(in) \/ ~in.cfgWifi \/ ~in.ssid)
       => in.netInit
  /\ (~in.hw \/ ~sk_initialize_storage(in) \/ ~in.scriptExists)
       => in.scriptExists2

sk_load_configuration(in, c) ==
  IF in.cfg # "ok" THEN Ret(FALSE, c)
  ELSE Ret(TRUE, [c EXCEPT !.wifi = in.cfgWifi, !.ssid = in.ssid])

sk_initialize_network(in, c) ==
  IF ~c.ssid THEN Ret(FALSE, c) ELSE Ret(in.netInit, c)

webscreen_runtime_shutdown(c) ==
  IF c.js \/ c.fb THEN [c EXCEPT !.js = FALSE, !.fb = FALSE] ELSE c

\* "LVGL initialized (stub implementation)": return true
webscreen_runtime_init_lvgl == TRUE

webscreen_runtime_start_javascript(in, c) ==
  IF ~in.scriptExists2 THEN Ret(FALSE, c)
  ELSE LET c1 == webscreen_runtime_shutdown(c) IN
       IF ~webscreen_runtime_init_lvgl THEN Ret(FALSE, c1)
       ELSE Ret(TRUE, [c1 EXCEPT !.js = TRUE, !.fb = FALSE])

\* a fallback start that forgets "g_fallback_active = true"
webscreen_runtime_start_fallback_no_flag(c) ==
  LET c1 == webscreen_runtime_shutdown([c EXCEPT !.fbStarts = @ + 1]) IN
  IF ~webscreen_runtime_init_lvgl THEN Ret(FALSE, c1)
  ELSE Ret(TRUE, [c1 EXCEPT !.js = FALSE])

\* webscreen_runtime_start_fallback()
webscreen_runtime_start_fallback(c) ==
  LET c1 == webscreen_runtime_shutdown([c EXCEPT !.fbStarts = @ + 1]) IN
  IF ~webscreen_runtime_init_lvgl THEN Ret(FALSE, c1)
  ELSE Ret(TRUE, [c1 EXCEPT !.js = FALSE, !.fb = TRUE])

sk_start_runtime(in, c0) ==
  LET c == [c0 EXCEPT !.depth = @ + 1] IN
  IF c.fallback
  THEN webscreen_runtime_start_fallback(
         [c EXCEPT !.state = "RunningFallback"])
  ELSE IF ~in.scriptExists
  THEN webscreen_runtime_start_fallback(
         [c EXCEPT !.fallback = TRUE, !.state = "RunningFallback"])
  ELSE LET r == webscreen_runtime_start_javascript(
                  in, [c EXCEPT !.jsStarts = @ + 1])
       IN IF r.ok
          THEN Ret(TRUE, [r.c EXCEPT !.state = "RunningScript"])
          ELSE webscreen_runtime_start_fallback(
                 [r.c EXCEPT !.fallback = TRUE, !.state = "RunningFallback"])

sk_webscreen_setup(in) ==
  IF ~in.hw THEN Ret(FALSE, Ctx0)
  ELSE
    LET c1 == IF ~sk_initialize_storage(in) THEN SetFallback(Ctx0) ELSE Ctx0
        c2 == IF ~c1.fallback THEN sk_load_configuration(in, c1).c ELSE c1
        c3 == IF ~c2.fallback /\ c2.wifi
              THEN sk_initialize_network(in, c2).c ELSE c2
        r4 == sk_start_runtime(in, c3)
    IN IF r4.ok THEN Ret(TRUE, r4.c)
       ELSE LET r5 == webscreen_runtime_start_fallback(SetFallback(r4.c))
            IN Ret(r5.ok, r5.c)

(***************************************************************************)
(* Application supervisor: the actions                                     *)
(***************************************************************************)
\* "Check system health every 30 seconds"
HEALTH_INTERVAL_MS == 30000

\* Bounds of the supervisor model: the clock stops after MaxUpTicks steps of
\* half a health interval; the script runtime reports at most MaxFaults fatal
\* faults.
MaxUpTicks == 6
MaxFaults  == 2

UpUnitMs == HEALTH_INTERVAL_MS \div 2

NoIter == [ran |-> FALSE, at |-> "Initializing", tick |-> "none",
           ticks |-> {}, netPoll |-> FALSE, health |-> FALSE,
           fault |-> FALSE, steps |-> <<>>, healthGap |-> 0]

NoStarts == [js |-> 0, fb |-> 0, depth |-> 0]

InitSup ==
  /\ build = "none"
  /\ pc = "boot"
  /\ g_app_state = "Initializing"
  /\ g_use_fallback = FALSE
  /\ wifi_enabled = TRUE
  /\ g_javascript_active = FALSE
  /\ g_fallback_active = FALSE
  /\ g_system_healthy = TRUE
  /\ g_last_health_check = 0
  /\ upMs = 0
  /\ reports = <<>>
  /\ world = [hw |-> TRUE]
  /\ starts = NoStarts
  /\ setupOk = FALSE
  /\ iter = NoIter
  /\ shutdownAsked = FALSE

\* the state a setup leaves behind
AfterSetup(b, p, ok, in, c) ==
  /\ build' = b
  /\ pc' = p
  /\ setupOk' = ok
  /\ world' = in
  /\ g_app_state' = c.state
  /\ g_use_fallback' = c.fallback
  /\ wifi_enabled' = c.wifi
  /\ g_javascript_active' = c.js
  /\ g_fallback_active' = c.fb
  /\ reports' = c.reports
  /\ starts' = [js |-> c.jsStarts, fb |-> c.fbStarts, depth |-> c.depth]
  /\ UNCHANGED <<g_system_healthy, g_last_health_check, upMs, iter,
                 shutdownAsked>>
  /\ UNCHANGED restOfSup

\* firmware: webscreen_setup()
FwSetup ==
  /\ build = "none"
  /\ \E in \in FwInputs :
       /\ FwAsked(in)
       /\ LET r == fw_webscreen_setup(in) IN
          AfterSetup("firmware", r.pc, r.pc = "running", in, r.c)

\* sketch: webscreen_setup(); the Arduino core calls loop() whatever it
\* returned
SkSetup ==
  /\ build = "none"
  /\ \E in \in SkInputs :
       /\ SkAsked(in)
       /\ LET r == sk_webscreen_setup(in) IN
          AfterSetup("sketch", "running", r.ok, in, r.c)

\* the switch of run_main_loop with the break of the script case missing
SwitchCallsFallThrough(state) ==
  IF state = "RunningScript" THEN {"script", "fallback"}
  ELSE IF state = "RunningFallback" THEN {"fallback"}
  ELSE {}

\* the runtime loop functions the switch of run_main_loop calls
SwitchCalls(state) ==
  IF state = "RunningScript" THEN {"script"}
  ELSE IF state = "RunningFallback" THEN {"fallback"}
  ELSE {}

\* the mode tick a state selects: the switch of run_main_loop
TickOf(state) ==
  IF state = "RunningScript" THEN "script"
  ELSE IF state = "RunningFallback" THEN "fallback"
  ELSE "none"

\* g_app_state after the switch of run_main_loop
\* a switch whose default case leaves the state as it is
StateAfterSwitchNoDefault(state) == state

StateAfterSwitch(state) ==
  IF state \in {"RunningScript", "RunningFallback", "Error", "Shutdown"}
  THEN state ELSE "Error"

\* the health check that forgets its interval
HealthDueAlways(n, last) == TRUE

\* if (now - g_last_health_check > 30000)
HealthDue(n, last) == n - last > HEALTH_INTERVAL_MS

\* what one iteration of run_main_loop does, in the order of its statements
LoopSteps(ticked, net, due, yields) ==
  (IF ticked THEN <<"tick">> ELSE <<>>)
  \o (IF net THEN <<"poll">> ELSE <<>>)
  \o (IF due THEN <<"health">> ELSE <<>>)
  \o (IF yields THEN <<"yield">> ELSE <<>>)

\* sketch: run_main_loop(). memHigh: memory usage is above
\* WEBSCREEN_MEMORY_WARNING_THRESHOLD when handle_system_health looks.
sk_run_main_loop ==
  /\ build = "sketch" /\ pc = "running"
  /\ \E memHigh \in BOOLEAN :
       LET early  == g_app_state = "Shutdown"
           ticked == \/ g_app_state = "RunningScript" /\ g_javascript_active
                     \/ g_app_state = "RunningFallback" /\ g_fallback_active
           net    == ~early /\ ~g_use_fallback /\ wifi_enabled
           due    == ~early /\ HealthDue(upMs, g_last_health_check)
       IN
       /\ ~due => ~memHigh
       /\ g_app_state' = StateAfterSwitch(g_app_state)
       /\ g_last_health_check' = IF due THEN upMs ELSE g_last_health_check
       /\ g_system_healthy' = IF due THEN ~memHigh ELSE g_system_healthy
       /\ iter' = [ran |-> TRUE, at |-> g_app_state,
                   tick |-> IF ticked THEN TickOf(g_app_state) ELSE "none",
                   ticks |-> {t \in SwitchCalls(g_app_state) :
                                \/ t = "script" /\ g_javascript_active
                                \/ t = "fallback" /\ g_fallback_active},
                   netPoll |-> net, health |-> due, fault |-> FALSE,
                   steps |-> LoopSteps(ticked, net, due, ~early),
                   healthGap |-> IF due THEN upMs - g_last_health_check
                                 ELSE 0]
  /\ UNCHANGED <<build, pc, g_use_fallback, wifi_enabled,
                 g_javascript_active, g_fallback_active, upMs, reports,
                 world, starts, setupOk, shutdownAsked>>
  /\ UNCHANGED restOfSup

\* firmware: run_main_loop(). fault: the script runtime reports a fatal fault
\* during js_runtime_loop().
fw_run_main_loop ==
  /\ build = "firmware" /\ pc = "running"
  /\ \E fault \in BOOLEAN :
       LET due == HealthDue(upMs, g_last_health_check) IN
       /\ fault => (g_app_state = "RunningScript"
                    /\ CountSeverity(reports, "FATAL") < MaxFaults)
       /\ g_app_state' = IF g_app_state \in AppStates \ {"Initializing",
                                                           "Shutdown"}
                         THEN g_app_state ELSE "Error"
       /\ reports' = IF fault
                     THEN Append(reports, <<"JS_RUNTIME_FAILED", "FATAL">>)
                     ELSE reports
       /\ g_last_health_check' = IF due THEN upMs ELSE g_last_health_check
       /\ iter' = [ran |-> TRUE, at |-> g_app_state,
                   tick |-> TickOf(g_app_state),
                   ticks |-> SwitchCalls(g_app_state),
                   netPoll |-> ~g_use_fallback, health |-> due,
                   fault |-> fault,
                   steps |-> LoopSteps(SwitchCalls(g_app_state) # {},
                                       ~g_use_fallback, due, FALSE),
                   healthGap |-> IF due THEN upMs - g_last_health_check
                                 ELSE 0]
  /\ UNCHANGED <<build, pc, g_use_fallback, wifi_enabled,
                 g_javascript_active, g_fallback_active, g_system_healthy,
                 upMs, world, starts, setupOk, shutdownAsked>>
  /\ UNCHANGED restOfSup

\* webscreen_shutdown() without the call of webscreen_runtime_shutdown()
webscreen_shutdown_keeps_runtime ==
  /\ build = "sketch" /\ pc = "running"
  /\ g_app_state # "Shutdown"
  /\ g_app_state' = "Shutdown"
  /\ shutdownAsked' = TRUE
  /\ UNCHANGED <<build, pc, g_use_fallback, wifi_enabled, g_system_healthy,
                 g_javascript_active, g_fallback_active,
                 g_last_health_check, upMs, reports, world, starts, setupOk,
                 iter>>
  /\ UNCHANGED restOfSup

\* sketch: webscreen_shutdown(), the explicit shutdown request
webscreen_shutdown ==
  /\ build = "sketch" /\ pc = "running"
  /\ g_app_state # "Shutdown"
  /\ g_javascript_active' = FALSE
  /\ g_fallback_active' = FALSE
  /\ g_app_state' = "Shutdown"
  /\ shutdownAsked' = TRUE
  /\ UNCHANGED <<build, pc, g_use_fallback, wifi_enabled, g_system_healthy,
                 g_last_health_check, upMs, reports, world, starts, setupOk,
                 iter>>
  /\ UNCHANGED restOfSup

\* time passes between two main-loop iterations
UpTick ==
  /\ pc = "running"
  /\ upMs + UpUnitMs <= MaxUpTicks * UpUnitMs
  /\ upMs' = upMs + UpUnitMs
  /\ UNCHANGED <<build, pc, g_app_state, g_use_fallback, wifi_enabled,
                 g_javascript_active, g_fallback_active, g_system_healthy,
                 g_last_health_check, reports, world, starts, setupOk, iter,
                 shutdownAsked>>
  /\ UNCHANGED restOfSup

\* Bound: "/config set" is acknowledged at most MaxCfgEdits times.
MaxCfgEdits == 2

InitCfg ==
  /\ cfgCard = 0
  /\ cfgEdits = 0

\* sketch console: SerialCommands::configSet. The edit is made on a copy of
\* the file's document and written back at once; g_webscreen_config is not
\* touched. sdOk: SD_MMC.begin(); openOk: the file opens for writing.
configSet ==
  /\ build = "sketch" /\ pc = "running"
  /\ cfgEdits < MaxCfgEdits
  /\ \E sdOk, openOk \in BOOLEAN :
       /\ ~sdOk => openOk
       /\ LET doc == cfgCard + 1 IN
          IF sdOk /\ openOk
          THEN cfgCard' = doc /\ cfgEdits' = cfgEdits + 1
          ELSE UNCHANGED cfgVars
  /\ UNCHANGED restOfCfg

NextSup == FwSetup \/ SkSetup \/ fw_run_main_loop \/ sk_run_main_loop
           \/ webscreen_shutdown \/ UpTick \/ configSet

(***************************************************************************)
(* Resource manager: webscreen_firmware/src/utils/memory/memory_manager.cpp *)
(***************************************************************************)
\* Bounds: the heaps hold at most MaxBlocks blocks; internal RAM is
\* InternalChunks and PSRAM PsramChunks chunks of ChunkBytes; the failure
\* counter is followed up to MaxFailedAllocs.
MaxBlocks       == 2
InternalChunks  == 9
PsramChunks     == 1
MaxFailedAllocs == 1

\* "For large allocations (>4KB), prefer PSRAM if available"
AUTO_PSRAM_BYTES == 4096
\* "if (required_size > 32768) { // 32KB"
LARGE_ALLOC_BYTES == 32768
\* "if (required_size < 1024) { // 1KB"
SMALL_ALLOC_BYTES == 1024

ChunkBytes    == 2 * AUTO_PSRAM_BYTES
InternalBytes == InternalChunks * ChunkBytes
PsramBytes    == PsramChunks * ChunkBytes

Addrs      == 1 .. MaxBlocks
Tiers      == {"internal", "psram"}
Strategies == {"INTERNAL_ONLY", "PSRAM_PREFERRED", "PSRAM_ONLY", "AUTO"}
\* the sizes asked for: below and above the PSRAM threshold of AUTO, and
\* for the recommendation also at and above the large-allocation threshold
AllocSizes == {SMALL_ALLOC_BYTES \div 2, ChunkBytes}
AdviceSizes == AllocSizes \cup {LARGE_ALLOC_BYTES,
                                 LARGE_ALLOC_BYTES + 1}

NoBlock == [tier |-> "none", size |-> 0]

RECURSIVE UsedIn(_, _, _)
UsedIn(hp, tier, n) ==
  IF n = 0 THEN 0
  ELSE (IF hp[n].tier = tier THEN hp[n].size ELSE 0) + UsedIn(hp, tier, n - 1)

Capacity(tier) == IF tier = "psram" THEN PsramBytes ELSE InternalBytes

\* heap_caps_get_free_size(cap)
FreeBytes(hp, tier) == Capacity(tier) - UsedIn(hp, tier, MaxBlocks)

FreeAddrs(hp) == {a \in Addrs : hp[a].tier = "none"}

\* heap_caps_malloc(size, cap) succeeds: the tier has the bytes and does not
\* refuse them (fragmentation)
CanMalloc(hp, size, tier, refuse) ==
  /\ tier \notin refuse
  /\ size <= FreeBytes(hp, tier)

\* heap_caps_realloc(ptr, size, cap) succeeds: as for malloc, with the bytes
\* of the old block counted as free when it lies in the same tier
CanRealloc(hp, ptr, size, tier, refuse) ==
  /\ tier \notin refuse
  /\ size <= FreeBytes(hp, tier)
               + (IF hp[ptr].tier = tier THEN hp[ptr].size ELSE 0)

\* memory_alloc whose AUTO case lacks "if (!ptr) ptr = heap_caps_malloc(size,
\* MALLOC_CAP_INTERNAL)" after the PSRAM attempt
AllocPlanAutoNoFallback(size, strategy, psram) ==
  IF strategy = "INTERNAL_ONLY" THEN <<"internal">>
  ELSE IF strategy = "PSRAM_ONLY"
  THEN (IF psram THEN <<"psram">> ELSE <<>>)
  ELSE IF strategy = "PSRAM_PREFERRED"
  THEN (IF psram THEN <<"psram">> ELSE <<>>) \o <<"internal">>
  ELSE IF size > AUTO_PSRAM_BYTES /\ psram THEN <<"psram">>
  ELSE <<"internal">>

\* memory_alloc whose AUTO case prefers PSRAM only above the large-allocation
\* threshold of memory_get_recommended_strategy
AllocPlanAutoLargeOnly(size, strategy, psram) ==
  IF strategy = "INTERNAL_ONLY" THEN <<"internal">>
  ELSE IF strategy = "PSRAM_ONLY"
  THEN (IF psram THEN <<"psram">> ELSE <<>>)
  ELSE IF strategy = "PSRAM_PREFERRED"
  THEN (IF psram THEN <<"psram">> ELSE <<>>) \o <<"internal">>
  ELSE (IF size > LARGE_ALLOC_BYTES /\ psram THEN <<"psram">> ELSE <<>>)
       \o <<"internal">>

\* the tiers the switch of memory_alloc asks, in order, until one answers
AllocPlan(size, strategy, psram) ==
  IF strategy = "INTERNAL_ONLY" THEN <<"internal">>
  ELSE IF strategy = "PSRAM_ONLY"
  THEN (IF psram THEN <<"psram">> ELSE <<>>)
  ELSE IF strategy = "PSRAM_PREFERRED"
  THEN (IF psram THEN <<"psram">> ELSE <<>>) \o <<"internal">>
  ELSE (IF size > AUTO_PSRAM_BYTES /\ psram THEN <<"psram">> ELSE <<>>)
       \o <<"internal">>

\* the same for the switch of memory_realloc, which has no PSRAM_ONLY case
ReallocPlan(size, strategy, psram) ==
  IF strategy = "INTERNAL_ONLY" THEN <<"internal">>
  ELSE IF strategy = "PSRAM_PREFERRED"
  THEN (IF psram THEN <<"psram">> ELSE <<>>) \o <<"internal">>
  ELSE (IF size > AUTO_PSRAM_BYTES /\ psram THEN <<"psram">> ELSE <<>>)
       \o <<"internal">>

\* the tiers of a plan
PlanTiers(plan) == {plan[i] : i \in 1 .. Len(plan)}

\* what ESP.getPsramSize() > 0 may still turn out to be
PsramAnswers ==
  IF g_memory_manager_initialized THEN {g_psram_available} ELSE BOOLEAN

\* the first tier of the plan that answers (0: none does)
RECURSIVE FirstOk(_, _, _)
FirstOk(plan, okTiers, i) ==
  IF i > Len(plan) THEN 0
  ELSE IF plan[i] \in okTiers THEN i
  ELSE FirstOk(plan, okTiers, i + 1)

\* the tiers asked: the plan up to and including the one that answered
Tried(plan, okTiers) ==
  LET k == FirstOk(plan, okTiers, 1) IN
  IF k = 0 THEN plan ELSE SubSeq(plan, 1, k)

\* track_allocation without the update of peak_allocated
track_allocation_no_peak(st, list, ptr, size, entryOk) ==
  IF ptr = NULL \/ ~entryOk THEN [st |-> st, list |-> list]
  ELSE [st |-> [st EXCEPT !.total_allocated = @ + size,
                          !.allocation_count = @ + 1],
        list |-> <<[ptr |-> ptr, size |-> size]>> \o list]

\* track_allocation(ptr, size, caller); entryOk: the malloc of the record
\* itself succeeds
track_allocation(st, list, ptr, size, entryOk) ==
  IF ptr = NULL \/ ~entryOk THEN [st |-> st, list |-> list]
  ELSE LET total == st.total_allocated + size IN
       [st |-> [st EXCEPT !.total_allocated = total,
                          !.allocation_count = @ + 1,
                          !.peak_allocated = IF total > @ THEN total ELSE @],
        list |-> <<[ptr |-> ptr, size |-> size]>> \o list]

\* the first record of ptr in the list (0: none)
RECURSIVE FindEntry(_, _, _)
FindEntry(list, ptr, i) ==
  IF i > Len(list) THEN 0
  ELSE IF list[i].ptr = ptr THEN i
  ELSE FindEntry(list, ptr, i + 1)

\* untrack_allocation(ptr)
untrack_allocation(st, list, ptr) ==
  LET k == FindEntry(list, ptr, 1) IN
  IF ptr = NULL \/ k = 0 THEN [st |-> st, list |-> list]
  ELSE [st |-> [st EXCEPT !.total_allocated = @ - list[k].size,
                          !.allocation_count = @ - 1],
        list |-> SubSeq(list, 1, k - 1) \o SubSeq(list, k + 1, Len(list))]

Stats0 == [total_allocated |-> 0, peak_allocated |-> 0,
           allocation_count |-> 0, failed_allocations |-> 0]

NoMemOp == [op |-> "none", size |-> 0, strategy |-> "AUTO", arg |-> NULL,
            res |-> NULL, tried |-> <<>>]

\* a call of the manager and its arguments
Found(op, size, strategy, arg, psram) ==
  [NoMemOp EXCEPT !.op = op, !.size = size, !.strategy = strategy,
                  !.arg = arg]

InitMem ==
  /\ g_memory_manager_initialized = FALSE
  /\ g_psram_available = FALSE
  /\ g_memory_stats = Stats0
  /\ g_alloc_list = <<>>
  /\ heap = [a \in Addrs |-> NoBlock]
  /\ memOp = NoMemOp

\* memory_manager_init(); psram: ESP.getPsramSize() > 0
memory_manager_init ==
  /\ ~g_memory_manager_initialized
  /\ \E psram \in BOOLEAN :
       /\ g_psram_available' = psram
       /\ memOp' = Found("init", 0, "AUTO", NULL, psram)
  /\ g_memory_manager_initialized' = TRUE
  /\ g_memory_stats' = Stats0
  /\ g_alloc_list' = <<>>
  /\ UNCHANGED heap
  /\ UNCHANGED restOfMem

\* a failure branch without its "g_memory_stats.failed_allocations++"
CountFailureForgotten(st) == st

\* g_memory_stats.failed_allocations++
CountFailure(st) == [st EXCEPT !.failed_allocations = @ + 1]

\* the body of memory_alloc once the manager is initialised. refuse: the
\* tiers that refuse the request although they have the bytes.
AllocBody(size, strategy, psram, refuse, entryOk) ==
  LET plan    == AllocPlan(size, strategy, psram)
      okTiers == {t \in Tiers : CanMalloc(heap, size, t, refuse)}
      k       == FirstOk(plan, okTiers, 1)
      ptr     == IF k = 0 THEN NULL
                 ELSE CHOOSE a \in FreeAddrs(heap) :
                        \A b \in FreeAddrs(heap) : a <= b
      tr      == track_allocation(g_memory_stats, g_alloc_list, ptr, size,
                                  entryOk)
  IN
  /\ FreeAddrs(heap) # {}
  /\ refuse \subseteq PlanTiers(plan)
  /\ k = 0 => g_memory_stats.failed_allocations < MaxFailedAllocs
  /\ ptr = NULL => entryOk
  /\ heap' = IF ptr = NULL THEN heap
             ELSE [heap EXCEPT ![ptr] = [tier |-> plan[k], size |-> size]]
  /\ g_memory_stats' = IF ptr = NULL THEN CountFailure(g_memory_stats)
                       ELSE tr.st
  /\ g_alloc_list' = tr.list
  /\ memOp' = [Found("alloc", size, strategy, NULL, psram)
                 EXCEPT !.res = ptr, !.tried = Tried(plan, okTiers)]

\* memory_alloc(size, strategy, caller); an uninitialised manager is
\* initialised first
memory_alloc(size, strategy) ==
  /\ \E psram \in PsramAnswers, refuse \in SUBSET Tiers,
        entryOk \in BOOLEAN :
       /\ g_psram_available' = psram
       /\ AllocBody(size, strategy, psram, refuse, entryOk)
  /\ g_memory_manager_initialized' = TRUE
  /\ UNCHANGED restOfMem

\* the body of memory_free for a non-null pointer
FreeBody(ptr) ==
  LET un == untrack_allocation(g_memory_stats, g_alloc_list, ptr) IN
  /\ g_memory_stats' = un.st
  /\ g_alloc_list' = un.list
  /\ heap' = [heap EXCEPT ![ptr] = NoBlock]

\* memory_free(ptr, caller), for NULL or a block of the heaps
memory_free(ptr) ==
  /\ ptr # NULL => heap[ptr].tier # "none"
  /\ IF ptr = NULL
     THEN UNCHANGED <<g_memory_stats, g_alloc_list, heap>>
     ELSE FreeBody(ptr)
  /\ memOp' = Found("free", 0, "AUTO", ptr, g_psram_available)
  /\ UNCHANGED <<g_memory_manager_initialized, g_psram_available>>
  /\ UNCHANGED restOfMem

\* the size memory_realloc records for the block when the realloc fails:
\* "track_allocation(ptr, 0, caller); // Size unknown, but preserve tracking"
RetrackSize(oldSize) == 0

\* the body of memory_realloc for a block and a non-zero size
ReallocBody(ptr, size, strategy, refuse, entryOk) ==
  LET un      == untrack_allocation(g_memory_stats, g_alloc_list, ptr)
      plan    == ReallocPlan(size, strategy, g_psram_available)
      okTiers == {t \in Tiers : CanRealloc(heap, ptr, size, t, refuse)}
      k       == FirstOk(plan, okTiers, 1)
      old     == FindEntry(g_alloc_list, ptr, 1)
      oldSize == IF old = 0 THEN 0 ELSE g_alloc_list[old].size
      tr      == IF k # 0
                 THEN track_allocation(un.st, un.list, ptr, size, entryOk)
                 ELSE track_allocation(un.st, un.list, ptr,
                                       RetrackSize(oldSize), entryOk)
  IN
  /\ refuse \subseteq PlanTiers(plan)
  /\ k = 0 => g_memory_stats.failed_allocations < MaxFailedAllocs
  /\ heap' = IF k = 0 THEN heap
             ELSE [heap EXCEPT ![ptr] = [tier |-> plan[k], size |-> size]]
  /\ g_memory_stats' = IF k = 0 THEN CountFailure(tr.st) ELSE tr.st
  /\ g_alloc_list' = tr.list
  /\ memOp' = [Found("realloc", size, strategy, ptr, g_psram_available)
                 EXCEPT !.res = IF k = 0 THEN NULL ELSE ptr,
                        !.tried = Tried(plan, okTiers)]

\* memory_realloc(ptr, new_size, strategy, caller), for NULL or a block of
\* the heaps
memory_realloc(ptr, size, strategy) ==
  /\ ptr # NULL => heap[ptr].tier # "none"
  /\ ptr = NULL => size # 0
  /\ \E psram \in PsramAnswers, refuse \in SUBSET Tiers,
        entryOk \in BOOLEAN :
       IF ptr = NULL
       THEN /\ g_psram_available' = psram
            /\ g_memory_manager_initialized' = TRUE
            /\ AllocBody(size, strategy, psram, refuse, entryOk)
       ELSE /\ psram = g_psram_available
            /\ UNCHANGED <<g_memory_manager_initialized, g_psram_available>>
            /\ IF size = 0
               THEN /\ refuse = {} /\ entryOk
                    /\ FreeBody(ptr)
                    /\ memOp' = Found("realloc", size, strategy, ptr, psram)
               ELSE ReallocBody(ptr, size, strategy, refuse, entryOk)
  /\ UNCHANGED restOfMem

\* the recommendation without the "very large allocations" rule
RecommendedStrategyNoLargeRule(size, psram, internalFree) ==
  IF ~psram THEN "INTERNAL_ONLY"
  ELSE IF internalFree < size * 2 THEN "PSRAM_PREFERRED"
  ELSE IF size < SMALL_ALLOC_BYTES THEN "INTERNAL_ONLY"
  ELSE "AUTO"

\* memory_get_recommended_strategy(required_size), given what
\* memory_get_stats reports as free internal RAM
RecommendedStrategy(size, psram, internalFree) ==
  IF ~psram THEN "INTERNAL_ONLY"
  ELSE IF size > LARGE_ALLOC_BYTES THEN "PSRAM_PREFERRED"
  ELSE IF internalFree < size * 2 THEN "PSRAM_PREFERRED"
  ELSE IF size < SMALL_ALLOC_BYTES THEN "INTERNAL_ONLY"
  ELSE "AUTO"

memory_get_recommended_strategy(size) ==
  /\ memOp' = [Found("recommend", size, "AUTO", NULL, g_psram_available)
                 EXCEPT !.res = RecommendedStrategy(
                                  size, g_psram_available,
                                  FreeBytes(heap, "internal"))]
  /\ UNCHANGED <<g_memory_manager_initialized, g_psram_available,
                 g_memory_stats, g_alloc_list, heap>>
  /\ UNCHANGED restOfMem

AllocStep   == \E size \in AllocSizes, strategy \in Strategies :
                 memory_alloc(size, strategy)
FreeStep    == \E ptr \in Addrs \cup {NULL} : memory_free(ptr)
ReallocStep == \E ptr \in Addrs \cup {NULL}, size \in AllocSizes \cup {0},
                  strategy \in Strategies :
                 memory_realloc(ptr, size, strategy)
RecommendStep == \E size \in AdviceSizes :
                   memory_get_recommended_strategy(size)

NextMem == memory_manager_init \/ AllocStep \/ FreeStep \/ ReallocStep
           \/ RecommendStep

(***************************************************************************)
(* Script bridge of the webscreen build: the functions the script calls    *)
(***************************************************************************)
\* static const int MAX_STYLES = 32;
MAX_STYLES == 32

\* Bounds of the bridge model: styles and meter scales the script creates.
MaxStyles == 2
MaxScales == 2

\* addresses of native objects: widgets are Ptrs; scales and styles lie
\* elsewhere on the heap
ScalePtrs  == (NumObjs + 1) .. (NumObjs + MaxScales)
StylePtr(i) == NumObjs + MaxScales + 1 + i

\* the arguments a script passes where a handle or a scale pointer is expected
StyleArgs  == {-1, 0, 1, MAX_STYLES}
ScaleArgs == ScalePtrs \cup {NULL}

\* js_mknull() and js_mknum(n)
js_mknull    == [isNull |-> TRUE, num |-> 0]
js_mknum(n)  == [isNull |-> FALSE, num |-> n]

\* get_lv_style(handle)
get_lv_style(map, h) == IF h < 0 \/ h >= MAX_STYLES THEN NULL ELSE map[h]

RECURSIVE StyleFirstFree(_, _)
\* create_style's scan: the first i >= k with !g_style_map[i], or -1
StyleFirstFree(map, k) ==
  IF k >= MAX_STYLES THEN -1
  ELSE IF map[k] = NULL THEN k
  ELSE StyleFirstFree(map, k + 1)

\* what lv_*_create returns: a widget that is not in the table
NewObjs == {p \in Ptrs : \A i \in 1 .. Len(g_objects) : g_objects[i] # p}

\* a bridge call: its name, its object handle, style handle and scale
\* arguments (those it has), the native object it made, what it returned
\* and whether it called LVGL on an existing object
Call(fn, objH, styleH, scale, made, ret, native) ==
  [fn |-> fn, objH |-> objH, styleH |-> styleH, scale |-> scale,
   made |-> made,
   ret |-> ret, native |-> native]

InitBridge ==
  /\ g_style_map = [i \in 0 .. (MAX_STYLES - 1) |-> NULL]
  /\ scales = {}
  /\ jsCall = Call("none", -1, -1, NULL, NULL, js_mknull, FALSE)

\* create_label(x, y)
js_create_label ==
  /\ \E nargsOk \in BOOLEAN :
       IF nargsOk
       THEN \E label \in NewObjs :
              /\ store_lv_obj(label)
              /\ jsCall' = Call("create_label", -1, -1, NULL, label,
                                js_mknum(StoreHandle(g_objects)), FALSE)
       ELSE /\ jsCall' = Call("create_label", -1, -1, NULL, NULL,
                              js_mknum(-1), FALSE)
            /\ UNCHANGED regVars
  /\ UNCHANGED <<g_style_map, scales>>
  /\ UNCHANGED restOfBr

\* lv_meter_create()
js_lv_meter_create ==
  /\ \E m \in NewObjs :
       /\ store_lv_obj(m)
       /\ jsCall' = Call("lv_meter_create", -1, -1, NULL, m,
                         js_mknum(StoreHandle(g_objects)), FALSE)
  /\ UNCHANGED <<g_style_map, scales>>
  /\ UNCHANGED restOfBr

\* create_style()
js_create_style ==
  LET i == StyleFirstFree(g_style_map, 0) IN
  /\ i < MaxStyles
  /\ g_style_map' = IF i = -1 THEN g_style_map
                    ELSE [g_style_map EXCEPT ![i] = StylePtr(i)]
  /\ jsCall' = Call("create_style", -1, -1, NULL,
                    IF i = -1 THEN NULL ELSE StylePtr(i), js_mknum(i), FALSE)
  /\ UNCHANGED <<regVars, scales>>
  /\ UNCHANGED restOfBr

\* lv_meter_add_scale(meterHandle): "Return pointer as numeric"
js_lv_meter_add_scale(h) ==
  LET obj == get_lv_obj(h) IN
  /\ IF obj = NULL
     THEN /\ jsCall' = Call("lv_meter_add_scale", h, -1, NULL, NULL,
                            js_mknull, FALSE)
          /\ UNCHANGED scales
     ELSE \E sc \in ScalePtrs :
            /\ \A p \in scales : p[2] # sc
            /\ scales' = scales \cup {<<obj, sc>>}
            /\ jsCall' = Call("lv_meter_add_scale", h, -1, NULL, sc,
                              js_mknum(sc), TRUE)
  /\ UNCHANGED <<regVars, g_style_map>>
  /\ UNCHANGED restOfBr

\* move_obj(handle, x, y)
js_move_obj(h) ==
  /\ jsCall' = Call("move_obj", h, -1, NULL, NULL, js_mknull,
                    get_lv_obj(h) # NULL)
  /\ UNCHANGED <<regVars, g_style_map, scales>>
  /\ UNCHANGED restOfBr

\* obj_add_style(objHandle, styleHandle, partOrState)
js_obj_add_style(objHandle, styleHandle) ==
  LET obj == get_lv_obj(objHandle)
      st  == get_lv_style(g_style_map, styleHandle)
  IN
  /\ jsCall' = Call("obj_add_style", objHandle, styleHandle, NULL, NULL,
                    js_mknull, ~(obj = NULL \/ st = NULL))
  /\ UNCHANGED <<regVars, g_style_map, scales>>
  /\ UNCHANGED restOfBr

\* lv_meter_set_scale_ticks(meterH, scalePtr, cnt, width, length, color):
\* the scale argument is cast to lv_meter_scale_t* and passed on
js_lv_meter_set_scale_ticks(h, sp) ==
  /\ jsCall' = Call("lv_meter_set_scale_ticks", h, -1, sp, NULL, js_mknull,
                    get_lv_obj(h) # NULL)
  /\ UNCHANGED <<regVars, g_style_map, scales>>
  /\ UNCHANGED restOfBr

AddScaleStep   == \E h \in Handles : js_lv_meter_add_scale(h)
MoveStep       == \E h \in Handles : js_move_obj(h)
AddStyleStep   == \E h \in Handles, sh \in StyleArgs :
                    js_obj_add_style(h, sh)
ScaleTicksStep == \E h \in Handles, sp \in ScaleArgs :
                    js_lv_meter_set_scale_ticks(h, sp)

\* the functions register_js_functions hands to the script (the chart
\* functions, of the same shape as the meter's, are not among them; nothing
\* calls release_lv_obj)
NextBridge == js_create_label \/ js_lv_meter_create \/ js_create_style
              \/ AddScaleStep \/ MoveStep \/ AddStyleStep \/ ScaleTicksStep

(***************************************************************************)
(* Two tasks calling one object table                                      *)
(***************************************************************************)
Tasks == {1, 2}

NoCall == [op |-> "none", arg |-> NULL, i |-> -1]

InitTasks ==
  /\ tb = "none"
  /\ tpc = [t \in Tasks |-> "idle"]
  /\ tcall = [t \in Tasks |-> NoCall]
  /\ g_obj_mtx = 0
  /\ held = {}

\* what a task step leaves alone
TaskFrame == UNCHANGED <<live, liveObj, issued, regOp, mapOp, tb>>
                /\ UNCHANGED restOfTask

\* a task enters a bridge function of build b: a creator first calls
\* lv_*_create, then store_lv_obj; the others go to the table at once.
\* The websocket build has no release_lv_obj.
TaskCall(t, b) ==
  /\ tpc[t] = "idle"
  /\ tb \in {"none", b}
  /\ tb' = b
  /\ \E op \in IF b = "webscreen" THEN {"store", "get", "release"}
                ELSE {"store", "get"} :
       \E a \in IF op = "store" THEN Ptrs ELSE 0 .. (MaxSlots - 1) :
         /\ tcall' = [tcall EXCEPT ![t] = [op |-> op, arg |-> a, i |-> -1]]
         /\ tpc' = [tpc EXCEPT ![t] = IF op = "store" THEN "native"
                                      ELSE "table"]
  /\ UNCHANGED <<g_objects, g_lv_obj_map, g_obj_mtx, held>>
  /\ UNCHANGED <<live, liveObj, issued, regOp, mapOp>>
  /\ UNCHANGED restOfTask

\* the LVGL call of the bridge function returns
TaskNativeDone(t) ==
  /\ tpc[t] = "native"
  /\ tpc' = [tpc EXCEPT ![t] = IF tcall[t].op = "store" THEN "table"
                               ELSE "idle"]
  /\ tcall' = [tcall EXCEPT ![t] = IF tcall[t].op = "store" THEN @
                                   ELSE NoCall]
  /\ UNCHANGED <<g_objects, g_lv_obj_map, g_obj_mtx, held>>
  /\ TaskFrame

\* std::lock_guard<std::mutex> lock(g_obj_mtx); at the head of store_lv_obj,
\* get_lv_obj and release_lv_obj
VecLock(t) ==
  /\ tb = "webscreen" /\ tpc[t] = "table"
  /\ g_obj_mtx = 0
  /\ g_obj_mtx' = t
  /\ tpc' = [tpc EXCEPT ![t] = "locked"]
  /\ UNCHANGED <<g_objects, g_lv_obj_map, tcall, held>>
  /\ TaskFrame

\* store_lv_obj of the webscreen build, first half: the scan for a null
\* slot
VecScan(t) ==
  /\ tb = "webscreen" /\ tpc[t] = "locked" /\ tcall[t].op = "store"
  /\ StoreHandle(g_objects) < MaxSlots
  /\ tcall' = [tcall EXCEPT ![t].i = StoreHandle(g_objects)]
  /\ tpc' = [tpc EXCEPT ![t] = "scanned"]
  /\ UNCHANGED <<g_objects, g_lv_obj_map, g_obj_mtx, held>>
  /\ TaskFrame

\* store_lv_obj of the webscreen build, second half: the write into the
\* slot found (or push_back), the return and the end of the lock_guard
VecWrite(t) ==
  LET i == tcall[t].i IN
  /\ tb = "webscreen" /\ tpc[t] = "scanned"
  /\ g_objects' = IF i < Len(g_objects)
                  THEN [g_objects EXCEPT ![i + 1] = tcall[t].arg]
                  ELSE Append(g_objects, tcall[t].arg)
  /\ held' = held \cup {<<IF i < Len(g_objects) THEN i ELSE Len(g_objects),
                          tcall[t].arg>>}
  /\ g_obj_mtx' = IF g_obj_mtx = t THEN 0 ELSE g_obj_mtx
  /\ tpc' = [tpc EXCEPT ![t] = "idle"]
  /\ tcall' = [tcall EXCEPT ![t] = NoCall]
  /\ UNCHANGED g_lv_obj_map
  /\ TaskFrame

\* get_lv_obj(h) of the webscreen build; the caller then calls LVGL on the
\* object if there is one
VecGet(t) ==
  /\ tb = "webscreen" /\ tpc[t] = "locked" /\ tcall[t].op = "get"
  /\ g_obj_mtx' = IF g_obj_mtx = t THEN 0 ELSE g_obj_mtx
  /\ tpc' = [tpc EXCEPT ![t] = IF GetIn(g_objects, tcall[t].arg) = NULL
                                 THEN "idle" ELSE "native"]
  /\ tcall' = [tcall EXCEPT ![t] = IF GetIn(g_objects, tcall[t].arg) = NULL
                                     THEN NoCall ELSE @]
  /\ UNCHANGED <<g_objects, g_lv_obj_map, held>>
  /\ TaskFrame

\* release_lv_obj(h) of the webscreen build
VecRelease(t) ==
  /\ tb = "webscreen" /\ tpc[t] = "locked" /\ tcall[t].op = "release"
  /\ g_objects' = ReleaseVec(g_objects, tcall[t].arg)
  /\ held' = {p \in held : p[1] # tcall[t].arg}
  /\ g_obj_mtx' = IF g_obj_mtx = t THEN 0 ELSE g_obj_mtx
  /\ tpc' = [tpc EXCEPT ![t] = "idle"]
  /\ tcall' = [tcall EXCEPT ![t] = NoCall]
  /\ UNCHANGED g_lv_obj_map
  /\ TaskFrame

\* store_lv_obj of the websocket build, first half: the scan
\* "if (!g_lv_obj_map[i])"; no lock is taken
MapScan(t) ==
  /\ tb = "websocket" /\ tpc[t] = "table" /\ tcall[t].op = "store"
  /\ MapStoreHandle(g_lv_obj_map) < MaxSlots
  /\ tcall' = [tcall EXCEPT ![t].i = MapStoreHandle(g_lv_obj_map)]
  /\ tpc' = [tpc EXCEPT ![t] = "scanned"]
  /\ UNCHANGED <<g_objects, g_lv_obj_map, g_obj_mtx, held>>
  /\ TaskFrame

\* store_lv_obj of the websocket build, second half:
\* "g_lv_obj_map[i] = obj; return i;" (or "return -1")
MapWrite(t) ==
  LET i == tcall[t].i IN
  /\ tb = "websocket" /\ tpc[t] = "scanned"
  /\ g_lv_obj_map' = IF i = -1 THEN g_lv_obj_map
                     ELSE [g_lv_obj_map EXCEPT ![i] = tcall[t].arg]
  /\ held' = IF i = -1 THEN held ELSE held \cup {<<i, tcall[t].arg>>}
  /\ tpc' = [tpc EXCEPT ![t] = "idle"]
  /\ tcall' = [tcall EXCEPT ![t] = NoCall]
  /\ UNCHANGED <<g_objects, g_obj_mtx>>
  /\ TaskFrame

\* get_lv_obj(handle) of the websocket build; the caller then calls LVGL on
\* the object if there is one
MapRead(t) ==
  /\ tb = "websocket" /\ tpc[t] = "table" /\ tcall[t].op = "get"
  /\ tpc' = [tpc EXCEPT ![t] = IF MapGet(g_lv_obj_map, tcall[t].arg) = NULL
                                 THEN "idle" ELSE "native"]
  /\ tcall' = [tcall EXCEPT ![t] =
                 IF MapGet(g_lv_obj_map, tcall[t].arg) = NULL
                 THEN NoCall ELSE @]
  /\ UNCHANGED <<g_objects, g_lv_obj_map, g_obj_mtx, held>>
  /\ TaskFrame

NextTasks ==
  \E t \in Tasks :
    \/ TaskCall(t, "webscreen") \/ TaskCall(t, "websocket")
    \/ TaskNativeDone(t)
    \/ VecLock(t) \/ VecScan(t) \/ VecWrite(t) \/ VecGet(t)
    \/ VecRelease(t)
    \/ MapScan(t) \/ MapWrite(t) \/ MapRead(t)

(***************************************************************************)
(* Fault handler: webscreen_error_report and the health query. Only its    *)
(* declarations are in the repository's sources; the body follows the      *)
(* fault-handler contract of the specification.                            *)
(***************************************************************************)
\* Bounds of the fault-handler model: the clock, the reports made, and the
\* escalation rule's N (its window is two clock units).
MaxErrTicks   == 3
MaxErrReports == 4
EscalationN   == 2

EscalationWindow == 2

\* webscreen_error_code_t (one code per two subsystems),
\* webscreen_error_severity_t, webscreen_recovery_strategy_t
ErrCodes   == {"WIFI_CONNECT_FAILED", "JS_RUNTIME_FAILED"}
Severities == {"INFO", "WARNING", "ERROR", "FATAL"}
Recoveries == <<"NONE", "RETRY", "FALLBACK", "RESTART_MODULE",
                "SYSTEM_RESTART">>

\* the place of a strategy in the order of increasing disruptiveness
RecoveryRank(r) == CHOOSE k \in 1 .. Len(Recoveries) : Recoveries[k] = r

\* the default mapping from severity to strategy
DefaultRecovery(code, severity) ==
  CASE severity = "INFO"    -> "NONE"
    [] severity = "WARNING" -> "RETRY"
    [] severity = "ERROR"   -> IF code = "JS_RUNTIME_FAILED" THEN "FALLBACK"
                               ELSE "RESTART_MODULE"
    [] severity = "FATAL"   -> "SYSTEM_RESTART"

\* the occurrence record of a code after one more report at time n
OccAfter(occ, n) ==
  IF occ.count = 0 \/ n - occ.since >= EscalationWindow
  THEN [count |-> 1, since |-> n]
  ELSE [count |-> occ.count + 1, since |-> occ.since]

\* a handler that never escalates
EscalatedNever(severity, count, base) == base

\* escalation with repetition: an Error-severity code reported more than N
\* times within the window gets at least RESTART_MODULE
Escalated(severity, count, base) ==
  IF /\ severity = "ERROR" /\ count > EscalationN
     /\ RecoveryRank(base) < RecoveryRank("RESTART_MODULE")
  THEN "RESTART_MODULE" ELSE base

NoErr == [code |-> "none", severity |-> "INFO", count |-> 0, base |-> "NONE",
          strategy |-> "NONE"]

InitErr ==
  /\ errNow = 0
  /\ errOcc = [c \in ErrCodes |-> [count |-> 0, since |-> 0]]
  /\ errTotal = 0
  /\ errFatal = 0
  /\ errCheckOk = TRUE
  /\ errLast = NoErr
  /\ fatalSeen = FALSE

\* webscreen_error_report(code, severity, ...). custom: the answer of the
\* handler registered for the code ("none": no handler registered)
webscreen_error_report(code, severity, custom) ==
  LET occ  == OccAfter(errOcc[code], errNow)
      base == IF custom = "none" THEN DefaultRecovery(code, severity)
              ELSE custom
  IN
  /\ errTotal < MaxErrReports
  /\ errOcc' = [errOcc EXCEPT ![code] = occ]
  /\ errTotal' = errTotal + 1
  /\ errFatal' = IF severity = "FATAL" THEN errFatal + 1 ELSE errFatal
  /\ fatalSeen' = (fatalSeen \/ severity = "FATAL")
  /\ errLast' = [code |-> code, severity |-> severity, count |-> occ.count,
                 base |-> base,
                 strategy |-> Escalated(severity, occ.count, base)]
  /\ UNCHANGED <<errNow, errCheckOk>>
  /\ UNCHANGED restOfErr

\* a health query that looks at the health check only
HealthyIgnoresFatal(fatal, checkOk) == checkOk

\* webscreen_error_system_healthy()
SystemHealthy(fatal, checkOk) == fatal = 0 /\ checkOk

webscreen_error_system_healthy == SystemHealthy(errFatal, errCheckOk)

\* webscreen_error_clear_history()
webscreen_error_clear_history ==
  /\ errOcc' = [c \in ErrCodes |-> [count |-> 0, since |-> 0]]
  /\ errTotal' = 0
  /\ errFatal' = 0
  /\ fatalSeen' = FALSE
  /\ errLast' = NoErr
  /\ UNCHANGED <<errNow, errCheckOk>>
  /\ UNCHANGED restOfErr

\* time passes; the health check may change its outcome
ErrTick ==
  /\ errNow < MaxErrTicks
  /\ errNow' = errNow + 1
  /\ errCheckOk' \in BOOLEAN
  /\ UNCHANGED <<errOcc, errTotal, errFatal, errLast, fatalSeen>>
  /\ UNCHANGED restOfErr

ReportStep == \E code \in ErrCodes, severity \in Severities,
                 custom \in {"none", "RETRY", "FALLBACK"} :
                webscreen_error_report(code, severity, custom)

NextErr == ReportStep \/ webscreen_error_clear_history \/ ErrTick

InitConn ==
  /\ now = 0
  /\ wifiUp = FALSE
  /\ mqttUp = FALSE
  /\ lastWiFiReconnectAttempt = 0
  /\ lastMqttReconnectAttempt = 0
  /\ wifiTry = [at |-> -1, gap |-> -1]
  /\ mqttTry = [at |-> -1, ok |-> FALSE, gap |-> -1, prevOk |-> FALSE]
  /\ poll = NoPoll

Init == InitRegistry /\ InitConn /\ InitSup /\ InitCfg /\ InitMem /\ InitMap
        /\ InitBridge /\ InitTasks /\ InitErr

SpecRegistry == Init /\ [][NextRegistry]_vars

SpecConn == Init /\ [][NextConn]_vars

SpecSup == Init /\ [][NextSup]_vars

SpecMem == Init /\ [][NextMem]_vars

SpecTables == Init /\ [][NextTables]_vars

SpecBridge == Init /\ [][NextBridge]_vars

SpecTasks == Init /\ [][NextTasks]_vars

SpecErr == Init /\ [][NextErr]_vars

(***************************************************************************)
(* Claims: object handle registry (SpecRegistry)                           *)
(***************************************************************************)
\* C1 (as stated): at every point get_lv_obj(h) is non-null if and only if h
\* was returned by a store_lv_obj call not since followed by release_lv_obj(h).
C1_GetIffStored ==
  \A h \in Handles : (get_lv_obj(h) # NULL) <=> (h \in live)

\* C1 (amended): at every point get_lv_obj(h) is non-null if and only if h was
\* returned by a store_lv_obj call of a non-null object that has not since
\* been followed by release_lv_obj(h).
C1_GetIffStoredObject ==
  \A h \in Handles : (get_lv_obj(h) # NULL) <=> (h \in liveObj)

\* a release has just happened, one stored handle is live and resolves, and
\* another, stored and released, does not
C1_Witness ==
  /\ regOp.op = "release"
  /\ \E a \in liveObj, b \in issued \ live :
       get_lv_obj(a) # NULL /\ get_lv_obj(b) = NULL

\* C2: immediately after release_lv_obj(h), for a handle h that a store_lv_obj
\* had returned, get_lv_obj(h) returns null.
C2_ReleasedHandleIsNull ==
  (regOp.op = "release" /\ regOp.arg \in issued)
    => get_lv_obj(regOp.arg) = NULL

\* the handle just released was issued by a store and held an object
C2_Witness ==
  /\ regOp.op = "release"
  /\ regOp.arg \in issued
  /\ regOp.was # NULL

(***************************************************************************)
(* Claims: connectivity maintenance (SpecConn)                             *)
(***************************************************************************)
\* C3 (as stated): two reconnection attempts for the same link (doWiFiReconnect,
\* doMqttConnect) are never started closer together than 10000 ms.
C3_MinRetryInterval ==
  /\ wifiTry.gap # -1 => wifiTry.gap >= RETRY_INTERVAL_MS
  /\ mqttTry.gap # -1 => mqttTry.gap >= RETRY_INTERVAL_MS

\* C3 (amended): two doWiFiReconnect attempts are never started closer together
\* than 10000 ms, and a doMqttConnect attempt is never started less than
\* 10000 ms after a doMqttConnect attempt that failed (a successful
\* doMqttConnect resets the messaging retry timer).
C3_MinRetryIntervalAfterFailure ==
  /\ wifiTry.gap # -1 => wifiTry.gap >= RETRY_INTERVAL_MS
  /\ (mqttTry.gap # -1 /\ ~mqttTry.prevOk)
       => mqttTry.gap >= RETRY_INTERVAL_MS

\* each link has been through two attempts, the messaging one after a failure
C3_Witness ==
  /\ wifiTry.gap # -1
  /\ mqttTry.gap # -1
  /\ ~mqttTry.prevOk

\* C4: a poll that observes the wireless link not connected issues no
\* doMqttConnect: after a wireless drop, messaging reconnection waits for a
\* poll that observes the wireless link connected.
C4_NoMqttTryWhileWifiDown ==
  poll.ran => (/\ ~poll.wifiSeen => ~poll.mqttTry
               /\ poll.mqttTry => poll.wifiSeen)

\* the last poll found Wi-Fi down mid-session with the messaging link down
\* and its retry due, and did not try it
C4_Witness ==
  /\ poll.ran /\ ~poll.wifiSeen /\ ~poll.mqttTry
  /\ mqttTry.at # -1
  /\ ~mqttUp
  /\ RetryDue(now, lastMqttReconnectAttempt)

(***************************************************************************)
(* Application supervisor: what a run of setup was given                   *)
(***************************************************************************)
\* hardware bring-up succeeded
HwOk ==
  IF build = "firmware"
  THEN world.core = "ok" /\ world.power /\ world.display
  ELSE world.hw

\* the storage mount succeeded
StorageOk ==
  IF build = "firmware" THEN world.sd ELSE sk_initialize_storage(world)

\* the configured script file is on the card
ScriptPresent == world.scriptExists

\* script-engine startup succeeds when it is tried
EngineStartOk ==
  IF build = "firmware" THEN world.jsInit ELSE world.scriptExists2

\* start_runtime tried to start the script engine and the start failed
ScriptStartFailed ==
  /\ build # "none"
  /\ starts.js >= 1
  /\ ~EngineStartOk

\* a start of the fallback application was tried and failed
FallbackStartFailed ==
  /\ build # "none"
  /\ starts.fb >= 1
  /\ IF build = "firmware" THEN ~world.fbInit
     ELSE ~webscreen_runtime_init_lvgl

\* setup has returned and nothing has run since
AtSetupEnd ==
  /\ build # "none"
  /\ ~iter.ran
  /\ g_app_state # "Shutdown"

\* C5: when the script file is present and the start of the script engine
\* fails, the supervisor is in RunningFallback (until an explicit shutdown),
\* exactly one report of severity Error with code JS_RUNTIME_FAILED exists,
\* and the script engine was started exactly once however many main-loop
\* iterations have run. (Stated for the runs whose fallback start succeeds.)
C5_ScriptStartFailureFallsBack ==
  (ScriptStartFailed /\ ~FallbackStartFailed) =>
    /\ g_app_state \in {"RunningFallback", "Shutdown"}
    /\ CountReports(reports, "JS_RUNTIME_FAILED", "ERROR") = 1
    /\ starts.js = 1

\* C6: when the configuration file is absent at boot, setup reaches
\* RunningFallback, the script engine is never started, and exactly one
\* report of severity Warning with code CONFIG_FILE_NOT_FOUND exists.
\* (Stated for the runs whose fallback start succeeds.)
C6_AbsentConfigFallsBack ==
  (build # "none" /\ world.cfg = "absent" /\ ~FallbackStartFailed) =>
    /\ g_app_state \in {"RunningFallback", "Shutdown"}
    /\ starts.js = 0
    /\ CountReports(reports, "CONFIG_FILE_NOT_FOUND", "WARNING") = 1

\* C7: setup ends in RunningScript exactly when hardware bring-up, storage
\* mount, script presence and script-engine startup all succeed, and in
\* RunningFallback when hardware is up and one of the other three fails;
\* nothing else (the network in particular) has a say. (Stated for the runs
\* whose fallback start succeeds.)
C7_ModeChosenByFourConditions ==
  (AtSetupEnd /\ ~FallbackStartFailed) =>
    /\ (g_app_state = "RunningScript")
         <=> (HwOk /\ StorageOk /\ ScriptPresent /\ EngineStartOk)
    /\ (HwOk /\ ~(StorageOk /\ ScriptPresent /\ EngineStartOk))
         => g_app_state = "RunningFallback"

\* C8: when the start of the fallback application fails during setup the
\* state is Error; the supervisor is not in RunningFallback or Initializing
\* with neither runtime active.
C8_FallbackFailureIsError ==
  FallbackStartFailed =>
    /\ g_app_state = "Error"
    /\ ~(/\ g_app_state \in {"RunningFallback", "Initializing"}
         /\ ~g_javascript_active /\ ~g_fallback_active)

\* the script runtime has reported a fatal fault during a tick (the fatal
\* reports of setup all end in the halt of emergency_shutdown)
FaultSeen ==
  /\ build = "firmware" /\ pc = "running"
  /\ CountSeverity(reports, "FATAL") > 0

\* C9: once the script runtime has reported a fatal fault during a tick, the
\* state after that iteration is RunningFallback, and every later iteration
\* runs the fallback tick.
C9_FaultSwitchesToFallback ==
  FaultSeen =>
    /\ g_app_state = "RunningFallback"
    /\ (iter.fault \/ iter.tick = "fallback")

\* C10: Error is terminal: a step taken in Error leaves the state Error, and
\* a main-loop iteration taken in Error runs no mode tick, no connectivity
\* poll and no health evaluation.
C10_ErrorIsTerminal ==
  [][g_app_state = "Error" =>
       /\ g_app_state' = "Error"
       /\ iter' # iter =>
            (iter'.tick = "none" /\ ~iter'.netPoll /\ ~iter'.health)]_vars

\* C11: once webscreen_shutdown has been called the state is Shutdown,
\* neither runtime is active, every acknowledged configuration edit is on the
\* card, and a main-loop iteration taken since then ran no mode tick, no
\* connectivity poll and no health evaluation.
C11_ShutdownTearsDownAndHalts ==
  shutdownAsked =>
    /\ g_app_state = "Shutdown"
    /\ ~g_javascript_active /\ ~g_fallback_active
    /\ cfgCard = cfgEdits
    /\ (iter.ran /\ iter.at = "Shutdown") =>
         (iter.tick = "none" /\ ~iter.netPoll /\ ~iter.health)

\* a script that was running is shut down after a configuration edit, and
\* the main loop has turned since
C11_Witness ==
  /\ shutdownAsked
  /\ starts.js = 1 /\ EngineStartOk /\ starts.fb = 0
  /\ cfgEdits > 0
  /\ iter.ran /\ iter.at = "Shutdown"

\* C12: the two runtimes are never both active, and a main-loop iteration
\* runs the tick of at most one mode, the one its state names: the script
\* tick only in RunningScript, the fallback tick only in RunningFallback.
C12_OneModeTickPerIteration ==
  /\ ~(g_javascript_active /\ g_fallback_active)
  /\ iter.ran =>
       /\ Cardinality(iter.ticks) <= 1
       /\ "script" \in iter.ticks => iter.at = "RunningScript"
       /\ "fallback" \in iter.ticks => iter.at = "RunningFallback"

\* an iteration in RunningScript has run the script tick
C12_Witness ==
  /\ iter.ran /\ iter.at = "RunningScript"
  /\ iter.ticks = {"script"}

\* the steps of an iteration come in the order tick, poll, health, yield
StepRank(x) ==
  IF x = "tick" THEN 1 ELSE IF x = "poll" THEN 2
  ELSE IF x = "health" THEN 3 ELSE 4

StepsInOrder(q) ==
  \A i, j \in 1 .. Len(q) : i < j => StepRank(q[i]) < StepRank(q[j])

Has(q, x) == \E i \in 1 .. Len(q) : q[i] = x

\* the last iteration was taken in RunningScript or RunningFallback
ModeIteration ==
  iter.ran /\ iter.at \in {"RunningScript", "RunningFallback"}

\* C13 as stated: an iteration in RunningScript or RunningFallback runs the
\* mode tick, then the connectivity poll, then the health evaluation when it
\* is due, then the yield; the poll and the yield are in every such
\* iteration, and a health evaluation comes more than 30 s after the one
\* before.
C13_TickPollHealthYield ==
  ModeIteration =>
    /\ StepsInOrder(iter.steps)
    /\ Has(iter.steps, "tick")
    /\ Has(iter.steps, "poll")
    /\ Has(iter.steps, "yield")
    /\ Has(iter.steps, "health") => iter.healthGap > HEALTH_INTERVAL_MS

\* C13 amended: the order is as stated, the mode tick is in every such
\* iteration, the poll is in exactly the iterations whose fallback flag is
\* clear (and, in the sketch, whose configuration enables Wi-Fi), the yield
\* ends every sketch iteration and no firmware iteration, and a health
\* evaluation comes more than 30 s after the one before.
C13_TickThenPollUnlessFallback ==
  ModeIteration =>
    /\ StepsInOrder(iter.steps)
    /\ Has(iter.steps, "tick")
    /\ Has(iter.steps, "poll")
         <=> (~g_use_fallback /\ (build = "sketch" => wifi_enabled))
    /\ iter.at = "RunningFallback" => ~Has(iter.steps, "poll")
    /\ Has(iter.steps, "yield") <=> build = "sketch"
    /\ Has(iter.steps, "health") => iter.healthGap > HEALTH_INTERVAL_MS

\* a script iteration that polled the network and evaluated health
C13_Witness ==
  /\ ModeIteration
  /\ Has(iter.steps, "tick") /\ Has(iter.steps, "poll")
  /\ Has(iter.steps, "health")

\* the free bytes of PSRAM as a call finds them (none without PSRAM)
TierBFreeAtCall ==
  IF g_psram_available' THEN FreeBytes(heap, "psram") ELSE 0

\* C14: a memory_alloc of 8192 bytes with strategy AUTO that finds PSRAM
\* without free bytes asks internal RAM; the block it returns lies in
\* internal RAM; and when internal RAM fails too it returns null and
\* failed_allocations grows by exactly one.
C14_AutoFallsBackToInternal ==
  [][(/\ memOp'.op = "alloc"
      /\ memOp'.size = 2 * AUTO_PSRAM_BYTES
      /\ memOp'.strategy = "AUTO"
      /\ TierBFreeAtCall = 0)
     =>
     /\ Has(memOp'.tried, "internal")
     /\ memOp'.res # NULL =>
          /\ heap'[memOp'.res].tier = "internal"
          /\ g_memory_stats'.failed_allocations
               = g_memory_stats.failed_allocations
     /\ memOp'.res = NULL =>
          g_memory_stats'.failed_allocations
            = g_memory_stats.failed_allocations + 1]_vars

\* PSRAM is there and full, and the AUTO request of 8192 bytes, refused by
\* PSRAM, was served from internal RAM
C14_Witness ==
  /\ memOp.op = "alloc" /\ memOp.strategy = "AUTO"
  /\ memOp.size = 2 * AUTO_PSRAM_BYTES
  /\ memOp.tried = <<"psram", "internal">>
  /\ memOp.res # NULL /\ heap[memOp.res].tier = "internal"
  /\ g_psram_available /\ FreeBytes(heap, "psram") = 0

\* C15: a memory_alloc call that obtains no block from the heaps, whatever
\* its size and strategy, returns null, adds exactly one to
\* failed_allocations, and leaves the allocation records, total_allocated,
\* peak_allocated and allocation_count as they were.
C15_FailedAllocOnlyCounts ==
  [][(memOp'.op = "alloc" /\ heap' = heap)
     =>
     /\ memOp'.res = NULL
     /\ g_memory_stats'.failed_allocations
          = g_memory_stats.failed_allocations + 1
     /\ g_alloc_list' = g_alloc_list
     /\ g_memory_stats'.total_allocated = g_memory_stats.total_allocated
     /\ g_memory_stats'.peak_allocated = g_memory_stats.peak_allocated
     /\ g_memory_stats'.allocation_count
          = g_memory_stats.allocation_count]_vars

\* an allocation has failed while a record was live
C15_Witness ==
  /\ memOp.op = "alloc" /\ memOp.res = NULL
  /\ g_memory_stats.failed_allocations = 1
  /\ g_alloc_list # <<>>
  /\ g_memory_stats.total_allocated > 0

\* a memory_realloc call on a tracked block that got no block from any tier
FailedTrackedRealloc ==
  /\ memOp'.op = "realloc" /\ memOp'.arg # NULL /\ memOp'.size # 0
  /\ memOp'.res = NULL
  /\ FindEntry(g_alloc_list, memOp'.arg, 1) # 0

\* C16: when memory_realloc fails on a tracked pointer, the original
\* allocation is again a live record with its original size, and
\* total_allocated and allocation_count equal their values before the call.
C16_FailedReallocRestoresTracking ==
  [][FailedTrackedRealloc
     =>
     LET before == FindEntry(g_alloc_list, memOp'.arg, 1)
         after  == FindEntry(g_alloc_list', memOp'.arg, 1)
     IN /\ after # 0
        /\ g_alloc_list'[after].size = g_alloc_list[before].size
        /\ g_memory_stats'.total_allocated = g_memory_stats.total_allocated
        /\ g_memory_stats'.allocation_count
             = g_memory_stats.allocation_count]_vars

\* what the large-allocation rule prescribes
LargeAdvice == IF g_psram_available THEN "PSRAM_PREFERRED"
               ELSE "INTERNAL_ONLY"

\* C17 as claimed: for every size greater than or equal to the
\* large-allocation threshold, memory_get_recommended_strategy returns
\* PSRAM_PREFERRED when PSRAM is available and INTERNAL_ONLY when it is not,
\* whatever the free internal memory.
C17_LargeFromThreshold ==
  (memOp.op = "recommend" /\ memOp.size >= LARGE_ALLOC_BYTES)
    => memOp.res = LargeAdvice

\* C17 as the code has it: the same for every size greater than the
\* large-allocation threshold.
C17_LargeAboveThreshold ==
  (memOp.op = "recommend" /\ memOp.size > LARGE_ALLOC_BYTES)
    => memOp.res = LargeAdvice

\* a size above the threshold was advised PSRAM_PREFERRED while internal RAM
\* had more than twice that size free
C17_Witness ==
  /\ memOp.op = "recommend" /\ memOp.size > LARGE_ALLOC_BYTES
  /\ g_psram_available
  /\ FreeBytes(heap, "internal") >= 2 * memOp.size
  /\ memOp.res = "PSRAM_PREFERRED"

(***************************************************************************)
(* Claims: the object tables of both builds (SpecTables)                   *)
(***************************************************************************)
\* the array has no free slot
MapFull(map) == \A i \in DOMAIN map : map[i] # NULL

\* C18: store returns a non-negative handle whenever a free slot exists or
\* the table can grow, and -1 exactly when the table is full; a non-negative
\* handle it returned resolves through get to the stored object. The vector
\* always can grow; the array is full when none of its MAX_OBJECTS slots is
\* null.
C18_StoreHandleOrFull ==
  [][/\ regOp'.op = "store" /\ regOp' # regOp
        => /\ regOp'.res >= 0
           /\ GetIn(g_objects', regOp'.res) = regOp'.arg
     /\ mapOp'.op = "store"
        => /\ mapOp'.res = -1 <=> MapFull(g_lv_obj_map)
           /\ mapOp'.res # -1
                => /\ mapOp'.res >= 0
                   /\ MapGet(g_lv_obj_map', mapOp'.res) = mapOp'.arg]_vars

\* the array build was asked to store an object with every slot taken
C18_Witness ==
  /\ mapOp.op = "store" /\ mapOp.arg # NULL /\ mapOp.res = -1
  /\ MapFull(g_lv_obj_map)

(***************************************************************************)
(* Claims: the script bridge (SpecBridge)                                  *)
(***************************************************************************)
Creators == {"create_label", "lv_meter_create", "create_style",
             "lv_meter_add_scale"}
Mutators == {"move_obj", "obj_add_style", "lv_meter_set_scale_ticks"}

\* the step is a bridge call of one of the functions fns
BridgeCallOf(fns) == jsCall' # jsCall /\ jsCall'.fn \in fns

\* the number n is, after the call, the handle under which a table holds the
\* native object the call made
IssuedFor(n, made) ==
  /\ n >= 0 /\ made # NULL
  /\ \/ GetIn(g_objects', n) = made
     \/ get_lv_style(g_style_map', n) = made

\* C19: every bridge function that creates a graphics, series or style
\* object returns to the script either a non-negative handle issued by a
\* handle table or -1 on failure, and never another value such as a raw
\* native address.
C19_CreatorsReturnHandles ==
  [][BridgeCallOf(Creators)
     => /\ ~jsCall'.ret.isNull
        /\ \/ jsCall'.ret.num = -1
           \/ IssuedFor(jsCall'.ret.num, jsCall'.made)]_vars

\* some handle-like argument of the call is invalid: its object handle is not
\* one stored and not released, its style handle holds no style, or its
\* scale reference is not a scale made for that meter (the meter's scales
\* are what this build registers of the chart's series)
SomeHandleInvalid ==
  \/ jsCall'.objH \notin liveObj
  \/ /\ jsCall'.fn = "obj_add_style"
     /\ get_lv_style(g_style_map, jsCall'.styleH) = NULL
  \/ /\ jsCall'.fn = "lv_meter_set_scale_ticks"
     /\ <<get_lv_obj(jsCall'.objH), jsCall'.scale>> \notin scales

\* C20: for any invalid handle argument, every bridge function that mutates
\* or queries an existing object performs no native object call and returns
\* null; this holds for every handle-like argument, series references
\* included.
C20_InvalidHandleIsNoOp ==
  [][(BridgeCallOf(Mutators) /\ SomeHandleInvalid)
     => (~jsCall'.native /\ jsCall'.ret.isNull)]_vars

(***************************************************************************)
(* Claims: two tasks on one object table (SpecTasks)                       *)
(***************************************************************************)
\* get_lv_obj of the build in use
TableGet(h) == IF tb = "websocket" THEN MapGet(g_lv_obj_map, h)
               ELSE GetIn(g_objects, h)

\* no two stores hold the same handle for two objects
HandlesDistinct == \A p, q \in held : p[1] = q[1] => p = q

\* every object stored and not released is what its handle resolves to
NothingLost == \A p \in held : TableGet(p[1]) = p[2]

\* no task is inside an LVGL call while it holds the table mutex
NoNativeUnderMutex == \A t \in Tasks : tpc[t] = "native" => g_obj_mtx # t

\* C21: under any interleaving of store, get and release calls of two tasks
\* on one table, two stores never return the same handle for two objects,
\* no stored object is lost, and the mutex is never held during a native
\* object call.
C21_TableCallsAtomic ==
  HandlesDistinct /\ NothingLost /\ NoNativeUnderMutex

\* the same, of the build whose table functions take the mutex
C21_VectorBuildAtomic == tb = "webscreen" => C21_TableCallsAtomic

(***************************************************************************)
(* Claims: fault handler (SpecErr)                                         *)
(***************************************************************************)
\* C22: a report of an Error-severity code that is its more-than-Nth within
\* the escalation window returns at least RESTART_MODULE, also where the
\* answer would otherwise have been RETRY.
C22_RepetitionEscalates ==
  (errLast.severity = "ERROR" /\ errLast.count > EscalationN)
    => RecoveryRank(errLast.strategy) >= RecoveryRank("RESTART_MODULE")

\* the report after N reports of the code within the window, for which the
\* code's handler answered RETRY
C22_Witness ==
  /\ errLast.severity = "ERROR" /\ errLast.count = EscalationN + 1
  /\ errLast.base = "RETRY" /\ errLast.strategy = "RESTART_MODULE"

\* C23: webscreen_error_system_healthy() is false after any Fatal report and
\* after any further reports, until webscreen_error_clear_history.
C23_UnhealthyAfterFatal ==
  fatalSeen => ~webscreen_error_system_healthy

\* a Fatal report was followed by a report of another severity while the
\* health check passes
C23_Witness ==
  /\ fatalSeen /\ errLast.severity # "FATAL" /\ errLast.code # "none"
  /\ errCheckOk /\ ~webscreen_error_system_healthy

(***************************************************************************)
(* Claims: connection failures (SpecConn)                                  *)
(***************************************************************************)
\* a step in which doWiFiReconnect or doMqttConnect was called and failed
FailedAttemptStep ==
  \/ wifiTry' # wifiTry /\ ~wifiUp'
  \/ mqttTry' # mqttTry /\ ~mqttTry'.ok

\* C24: every failed connection attempt, wireless or messaging, is reported
\* to the fault handler as one Warning-severity fault (and no connection
\* failure is reported as Fatal or answered with SYSTEM_RESTART).
C24_FailedAttemptWarns ==
  [][FailedAttemptStep =>
       /\ errTotal' = errTotal + 1
       /\ errLast'.severity = "WARNING"
       /\ errFatal' = errFatal
       /\ errLast'.strategy # "SYSTEM_RESTART"]_vars

(***************************************************************************)
(* Claims: display bring-up failure (SpecSup)                              *)
(***************************************************************************)
\* setup ran and the bring-up of the display hardware failed
DisplayFailed ==
  IF build = "firmware"
  THEN world.core = "ok" /\ world.power /\ ~world.display
  ELSE build = "sketch" /\ ~world.hw

\* the supervisor has had its chance to act on the failure: the firmware's
\* setup has ended, the sketch's main loop has run once
DisplayFailureHandled == DisplayFailed /\ (build = "sketch" => iter.ran)

\* C25: when the bring-up of the display hardware fails the application
\* state is Error (until an explicit shutdown), and neither the script
\* runtime nor the fallback application is ever started.
C25_DisplayFailureIsError ==
  DisplayFailureHandled =>
    /\ g_app_state \in {"Error", "Shutdown"}
    /\ starts.js = 0 /\ starts.fb = 0
    /\ ~g_javascript_active /\ ~g_fallback_active

\* the part of C25 that holds: after a failed display bring-up no runtime is
\* started and none is active
C25_NoRuntimeAfterDisplayFailure ==
  DisplayFailed =>
    /\ starts.js = 0 /\ starts.fb = 0
    /\ ~g_javascript_active /\ ~g_fallback_active

(***************************************************************************)
(* Claims: allocation records and tier selection (SpecMem)                 *)
(***************************************************************************)
\* the sum of the sizes of the first n allocation records
RECURSIVE RecordBytes(_, _)
RecordBytes(list, n) ==
  IF n = 0 THEN 0 ELSE list[n].size + RecordBytes(list, n - 1)

\* the blocks handed out by the manager and not yet freed
LiveBlocks == {a \in Addrs : heap[a].tier # "none"}

RecordedBlocks == {g_alloc_list[i].ptr : i \in 1 .. Len(g_alloc_list)}

\* allocation_count and total_allocated agree with the list of records
CountersMatchRecords ==
  /\ g_memory_stats.allocation_count = Len(g_alloc_list)
  /\ g_memory_stats.total_allocated
       = RecordBytes(g_alloc_list, Len(g_alloc_list))

\* C26: after any sequence of memory_alloc, memory_free and memory_realloc
\* calls allocation_count is the number of allocation records,
\* total_allocated the sum of their sizes, and the records are exactly the
\* blocks allocated through the manager and not yet freed, one record each.
C26_RecordsAreLiveBlocks ==
  /\ CountersMatchRecords
  /\ RecordedBlocks = LiveBlocks
  /\ Cardinality(RecordedBlocks) = Len(g_alloc_list)

\* the part of C26 that holds: the two counters always agree with the list
\* of records, and every record is of a live block
C26_CountersAgreeWithRecords ==
  /\ CountersMatchRecords
  /\ RecordedBlocks \subseteq LiveBlocks
  /\ Cardinality(RecordedBlocks) = Len(g_alloc_list)

\* a memory_alloc or memory_realloc call that asks the heaps for a block
AsksHeaps ==
  /\ memOp'.op \in {"alloc", "realloc"}
  /\ ~(memOp'.op = "realloc" /\ memOp'.size = 0)

\* C27: with PSRAM_ONLY neither memory_alloc nor memory_realloc asks
\* internal RAM or returns a block of it, and the call fails when PSRAM is
\* not available; with INTERNAL_ONLY neither asks PSRAM; with
\* PSRAM_PREFERRED an available PSRAM is asked first and internal RAM only
\* after it.
C27_StrategyBindsTiers ==
  [][AsksHeaps
     =>
     /\ memOp'.strategy = "PSRAM_ONLY" =>
          /\ ~Has(memOp'.tried, "internal")
          /\ memOp'.res # NULL => heap'[memOp'.res].tier = "psram"
          /\ ~g_psram_available' => memOp'.res = NULL
     /\ memOp'.strategy = "INTERNAL_ONLY" => ~Has(memOp'.tried, "psram")
     /\ memOp'.strategy = "PSRAM_PREFERRED" =>
          /\ g_psram_available' => memOp'.tried[1] = "psram"
          /\ Has(memOp'.tried, "internal") =>
               memOp'.tried \in {<<"internal">>, <<"psram", "internal">>}
    ]_vars

\* the part of C27 that holds: the same, of memory_alloc alone
C27_AllocBindsTiers ==
  [][memOp'.op = "alloc"
     =>
     /\ memOp'.strategy = "PSRAM_ONLY" =>
          /\ ~Has(memOp'.tried, "internal")
          /\ memOp'.res # NULL => heap'[memOp'.res].tier = "psram"
          /\ ~g_psram_available' => memOp'.res = NULL
     /\ memOp'.strategy = "INTERNAL_ONLY" => ~Has(memOp'.tried, "psram")
     /\ memOp'.strategy = "PSRAM_PREFERRED" =>
          /\ g_psram_available' => memOp'.tried[1] = "psram"
          /\ Has(memOp'.tried, "internal") =>
               memOp'.tried \in {<<"internal">>, <<"psram", "internal">>}
    ]_vars

\* a memory_alloc call with strategy AUTO
AutoAlloc == memOp'.op = "alloc" /\ memOp'.strategy = "AUTO"

\* what memory_get_recommended_strategy answers for the size of the call in
\* the state the call finds
AdviceAtCall ==
  RecommendedStrategy(memOp'.size, g_psram_available',
                      FreeBytes(heap, "internal"))

\* C28: memory_alloc with AUTO asks PSRAM first exactly when PSRAM is
\* available and the request either exceeds the large-allocation threshold
\* or is more than half of the free internal RAM, and internal RAM first
\* otherwise, which is when memory_get_recommended_strategy recommends
\* PSRAM_PREFERRED for the same size and state.
C28_AutoFollowsAdvice ==
  [][AutoAlloc
     =>
     /\ memOp'.tried[1] = "psram"
          <=> /\ g_psram_available'
              /\ \/ memOp'.size > LARGE_ALLOC_BYTES
                 \/ FreeBytes(heap, "internal") < 2 * memOp'.size
     /\ memOp'.tried[1] = "psram" <=> AdviceAtCall = "PSRAM_PREFERRED"
    ]_vars

\* C28 (amended): memory_alloc with AUTO asks PSRAM first exactly when PSRAM
\* is available and the request exceeds 4096 bytes, and internal RAM first
\* otherwise; it asks internal RAM first whenever
\* memory_get_recommended_strategy recommends INTERNAL_ONLY for the same
\* size and state.
C28_AutoPrefersPsramAbove4K ==
  [][AutoAlloc
     =>
     /\ memOp'.tried[1] = "psram"
          <=> (g_psram_available' /\ memOp'.size > AUTO_PSRAM_BYTES)
     /\ memOp'.tried[1] \in {"psram", "internal"}
     /\ AdviceAtCall = "INTERNAL_ONLY" => memOp'.tried[1] = "internal"
    ]_vars

\* an AUTO request of 8192 bytes, below the large-allocation threshold and
\* less than half of the free internal RAM, was served from PSRAM
C28_Witness ==
  /\ memOp.op = "alloc" /\ memOp.strategy = "AUTO"
  /\ memOp.size > AUTO_PSRAM_BYTES /\ memOp.size <= LARGE_ALLOC_BYTES
  /\ memOp.tried = <<"psram">>
  /\ memOp.res # NULL /\ heap[memOp.res].tier = "psram"
  /\ FreeBytes(heap, "internal") >= 2 * memOp.size

(***************************************************************************)
(* Claims: slot reuse in the object handle registry (SpecRegistry)         *)
(***************************************************************************)
\* the unoccupied slots of the vector (0-based)
FreeSlots(v) == {i \in 0 .. (Len(v) - 1) : v[i + 1] = NULL}

\* C29: store_lv_obj returns the lowest unoccupied slot when there is one and
\* leaves the size of the table as it is; when every slot is occupied it
\* returns the old size and the table grows by exactly one; release_lv_obj
\* never changes the size of the table.
C29_LowestFreeSlotOrAppend ==
  [][/\ regOp'.op = "store" =>
          LET h == regOp'.res IN
          /\ FreeSlots(g_objects) # {} =>
               /\ h \in FreeSlots(g_objects)
               /\ \A i \in FreeSlots(g_objects) : h <= i
               /\ Len(g_objects') = Len(g_objects)
          /\ FreeSlots(g_objects) = {} =>
               /\ h = Len(g_objects)
               /\ Len(g_objects') = Len(g_objects) + 1
     /\ regOp'.op = "release" => Len(g_objects') = Len(g_objects)
    ]_vars

\* a store has put an object into slot 0 below an occupied slot: a released
\* slot was reused and the table did not grow
C29_Witness ==
  /\ regOp.op = "store" /\ regOp.arg # NULL /\ regOp.res = 0
  /\ 0 \in issued
  /\ Len(g_objects) = 2 /\ g_objects[2] # NULL

\* release_lv_obj(h) of a handle that held an object has just returned, and
\* the store_lv_obj of this step gives the same number h to another object
ReissueStep ==
  /\ regOp.op = "release" /\ regOp.was # NULL
  /\ regOp'.op = "store" /\ regOp'.res = regOp.arg
  /\ regOp'.arg \notin {NULL, regOp.was}

\* C30: after release_lv_obj(h) and a store_lv_obj that gives the number h to
\* a different object, a lookup with the released handle h does not resolve
\* to the new object.
C30_StaleHandleNotResolved ==
  [][ReissueStep => GetIn(g_objects', regOp.arg) # regOp'.arg]_vars

(***************************************************************************)
(* Claims: the messaging retry timer after an outage (SpecConn)            *)
(***************************************************************************)
\* a poll that finds Wi-Fi connected, the poll before it having found it
\* down, while the broker connection is down
FirstPollAfterOutage ==
  /\ poll.ran /\ ~poll.wifiSeen
  /\ poll'.ran /\ poll'.wifiSeen
  /\ ~mqttUp

\* C31: the first poll that finds Wi-Fi connected again after an outage,
\* with the broker connection down, calls doMqttConnect, whatever remains of
\* the retry interval since the last MQTT attempt.
C31_MqttTriedWhenWifiReturns ==
  [][FirstPollAfterOutage => poll'.mqttTry]_vars

\* the part of C31 that holds: that poll calls doMqttConnect once more than
\* RETRY_INTERVAL_MS have passed since the last failed attempt
C31_MqttTriedWhenWifiReturnsAndDue ==
  [][(FirstPollAfterOutage /\ RetryDue(now, lastMqttReconnectAttempt))
       => poll'.mqttTry]_vars

(***************************************************************************)
(* Claims: the periodic health evaluation (SpecSup)                        *)
(***************************************************************************)
\* the last main-loop iteration evaluated the system health, and the fault
\* handler's fatal counter was nonzero at that evaluation (reports are made
\* before the evaluation of an iteration and never withdrawn)
EvaluatedWithFatal ==
  /\ build # "none" /\ iter.ran /\ iter.health
  /\ ~SystemHealthy(CountSeverity(reports, "FATAL"), TRUE)

\* webscreen_is_healthy()
webscreen_is_healthy == g_system_healthy

\* C32: after a periodic health evaluation at which the fault handler
\* reports unhealthy (fatal counter nonzero) the supervisor's system-health
\* flag is false, and webscreen_is_healthy returns it.
C32_FatalMakesUnhealthy ==
  EvaluatedWithFatal => (~g_system_healthy /\ ~webscreen_is_healthy)

(***************************************************************************)
(* Claims: the startup cascade (SpecSup)                                   *)
(***************************************************************************)
\* C33: start_runtime returns for every combination of prerequisite
\* outcomes, having entered itself at most once more (two activations at
\* most), tried the script engine at most once and the fallback application
\* at most once.
C33_CascadeBounded ==
  build # "none" =>
    /\ starts.depth <= 2
    /\ starts.js <= 1
    /\ starts.fb <= 1

\* the longest cascade: the script engine was tried and failed, start_runtime
\* entered itself again and tried the fallback application
C33_Witness ==
  /\ build = "firmware"
  /\ starts.depth = 2 /\ starts.js = 1 /\ starts.fb = 1

(***************************************************************************)
(* Claims: the runtime layer and the use-fallback flag (SpecSup)           *)
(***************************************************************************)
\* C34: at most one of the script runtime and the fallback runtime is
\* active; in RunningScript the script runtime is active and in
\* RunningFallback the fallback runtime is.
C34_StateNamesActiveRuntime ==
  /\ ~(g_javascript_active /\ g_fallback_active)
  /\ g_app_state = "RunningScript" => g_javascript_active
  /\ g_app_state = "RunningFallback" => g_fallback_active

\* the sketch tried the script engine, the start failed, and the fallback
\* runtime alone is active in RunningFallback
C34_Witness ==
  /\ build = "sketch" /\ starts.js = 1
  /\ g_app_state = "RunningFallback"
  /\ g_fallback_active /\ ~g_javascript_active

\* C35: g_use_fallback, once set, is never cleared; in RunningScript it is
\* false; and a successful setup that set it ends in RunningFallback.
C35_FallbackFlagMonotone ==
  [][/\ g_use_fallback => g_use_fallback'
     /\ g_app_state' = "RunningScript" => ~g_use_fallback'
     /\ (AtSetupEnd' /\ setupOk' /\ g_use_fallback')
          => g_app_state' = "RunningFallback"]_vars

\* a setup that set the flag succeeded, ended in RunningFallback, and the
\* flag is still set after a main-loop iteration
C35_Witness ==
  /\ build # "none" /\ setupOk /\ g_use_fallback
  /\ iter.ran /\ iter.at = "RunningFallback"
  /\ g_app_state = "RunningFallback"

(***************************************************************************)
(* Claims: the main loop in Initializing (SpecSup)                         *)
(***************************************************************************)
\* C36: a main-loop iteration that runs while the state is still
\* Initializing leaves the state Error, and from Error (or the Shutdown that
\* may follow it) the state never becomes RunningScript or RunningFallback.
C36_LoopInInitializingIsError ==
  [][/\ (iter' # iter /\ iter'.at = "Initializing")
          => g_app_state' = "Error"
     /\ g_app_state \in {"Error", "Shutdown"}
          => g_app_state' \notin {"RunningScript", "RunningFallback"}]_vars

\* hardware bring-up failed in setup, the first iteration moved the state to
\* Error, and a later iteration found it there and left it there
C36_Witness ==
  /\ build = "sketch" /\ ~world.hw /\ ~setupOk
  /\ iter.ran /\ iter.at = "Error"
  /\ g_app_state = "Error"

(***************************************************************************)
(* Claims: the allocation statistics (SpecMem)                             *)
(***************************************************************************)
\* a memory_free call of a null pointer or of a pointer without a record
FreeOfUntracked ==
  /\ memOp'.op = "free"
  /\ \/ memOp'.arg = NULL
     \/ FindEntry(g_alloc_list, memOp'.arg, 1) = 0

\* C37: after every call peak_allocated is at least total_allocated,
\* peak_allocated has not decreased, total_allocated is not negative, and a
\* memory_free of a null or untracked pointer leaves the statistics as they
\* were.
C37_PeakBoundsTotal ==
  [][/\ g_memory_stats'.peak_allocated >= g_memory_stats'.total_allocated
     /\ g_memory_stats'.peak_allocated >= g_memory_stats.peak_allocated
     /\ g_memory_stats'.total_allocated >= 0
     /\ FreeOfUntracked => g_memory_stats' = g_memory_stats]_vars

\* a block without a record was freed while another block was recorded: the
\* peak is still the total, which a free of a recorded block would have
\* lowered
C37_Witness ==
  /\ memOp.op = "free" /\ memOp.arg # NULL
  /\ g_memory_stats.failed_allocations = 0
  /\ g_memory_stats.total_allocated > 0
  /\ g_memory_stats.peak_allocated = g_memory_stats.total_allocated

(***************************************************************************)
(* Claims: the frame of release_lv_obj (SpecRegistry)                      *)
(***************************************************************************)
\* C38: release_lv_obj(h) leaves get_lv_obj(k) as it was for every handle k
\* other than h, and leaves the whole table as it was when h is negative,
\* out of range or names a slot that holds nothing (already released).
C38_ReleaseTouchesOneSlot ==
  [][regOp'.op = "release" =>
       LET h == regOp'.arg IN
       /\ \A k \in Handles \ {h} : GetIn(g_objects', k) = GetIn(g_objects, k)
       /\ (h < 0 \/ h >= Len(g_objects) \/ GetIn(g_objects, h) = NULL)
            => g_objects' = g_objects]_vars

\* a handle that had been issued and whose slot was already empty was
\* released while another handle resolves to its object
C38_Witness ==
  /\ regOp.op = "release"
  /\ regOp.arg \in issued /\ regOp.was = NULL
  /\ \E k \in liveObj : k # regOp.arg /\ get_lv_obj(k) # NULL

==============================================================================
